---- MODULE Spec2Model ----
(***************************************************************************)
(* Model of the socket RPC transport (src/API/__init__.py) and of the      *)
(* Antminer telemetry backends (src/pyasic/miners/backends/antminer.py).   *)
(*                                                                         *)
(* Python values are tagged records [t, v]; a Python str is a sequence of  *)
(* one-character strings, a bytes object a sequence of byte names.  The    *)
(* modelled JSON subset is: objects, arrays, strings without escapes,      *)
(* non-negative integers, true, false and null.                            *)
(***************************************************************************)
EXTENDS Integers, Sequences, FiniteSets, TLC

VARIABLES
    pc,         \* position of the running send_command call
    callNo,     \* number of send_command calls started on the handle
    command,    \* the command string of the running call
    parameters, \* the parameters argument of the running call
    joined,     \* the names given to multicommand, <<>> for a direct call
    devMode,    \* how the device treats the connection of this call
    wire,       \* response bytes the device has still to deliver
    data,       \* `data' of send_command: bytes, then the parsed document
    conn,       \* state of the connection owned by the running call
    opened,     \* every open_connection made: the call that made it
    written,    \* every request written: call, connection and bytes
    outcome,    \* what the running call returned or raised
    respDoc,    \* the document the device answers with (device side)
    respTail,   \* the bytes the device appends to the document
    entry,      \* the method the caller entered: send_command or multicommand
    request,    \* the bytes written on the connection by the running call
    hpc,        \* position of the running harvest
    harvestNo,  \* number of harvests started on the miner handle
    requested,  \* the field names the harvest was asked for
    pending,    \* requested fields whose extraction has not run yet
    cache,      \* per-harvest cache: command -> payload or failure marker
    issued,     \* per harvest: command -> number of times it was executed
    extractIO,  \* per harvest: command -> executions after extraction began
    snapshot,   \* per harvest: field -> its slot
    light,      \* self.light of the miner handle
    extracted,  \* per harvest: field -> how its extraction function ran
    fixed,      \* the transport answers a command the same way every time
    mock,       \* when fixed: command -> the answer it has given
    previous,   \* when fixed: the Snapshot of the preceding harvest
    call,       \* the last method called directly on the miner handle
    config,     \* self.config of the miner handle
    device,     \* the configuration the device currently runs with
    task,       \* stop_mining / resume_mining: position and locals of the call
    lastSent    \* the configuration last taken by the device from a call

tvars == <<pc, callNo, command, parameters, joined, devMode, wire, data,
           conn, opened, written, outcome, respDoc, respTail, entry, request>>

hvars == <<hpc, harvestNo, requested, pending, cache, issued, extractIO,
           snapshot, light, extracted, fixed, mock, previous>>
cvars == <<config, device, task, lastSent>>
ovars == <<call, cvars>>
vars == <<tvars, hvars, ovars>>

(***************************************************************************)
(* Bounds of the model.                                                    *)
(***************************************************************************)
MaxCalls == 2
MaxCmds == 2
MaxHarvests == 2
MaxFields == 2
MaxReadings == 3

(***************************************************************************)
(* Python values.                                                          *)
(***************************************************************************)
JStr(cs) == [t |-> "str", v |-> cs]
JInt(n) == [t |-> "int", v |-> n]
JList(xs) == [t |-> "list", v |-> xs]
JDict(items) == [t |-> "dict", v |-> items]
JBool(b) == [t |-> "bool", v |-> b]
None == [t |-> "None", v |-> <<>>]
Item(k, x) == [k |-> k, v |-> x]

Quote == "\""
Whitespace == {" ", "\n"}
ControlChars == {"NUL", "\n"}
DigitChars == <<"0", "1", "2", "3", "4", "5", "6", "7", "8", "9">>
DigitSet == {DigitChars[i] : i \in 1..Len(DigitChars)}
DigitVal(c) == (CHOOSE i \in 1..Len(DigitChars) : DigitChars[i] = c) - 1

HasKey(d, k) == \E i \in 1..Len(d.v) : d.v[i].k = k
Lookup(d, k) == d.v[CHOOSE i \in 1..Len(d.v) : d.v[i].k = k].v
\* d[k] = x on a dict: an existing key keeps its position
DictSet(d, k, x) ==
    IF HasKey(d, k)
    THEN JDict([i \in 1..Len(d.v) |-> IF d.v[i].k = k THEN Item(k, x) ELSE d.v[i]])
    ELSE JDict(Append(d.v, Item(k, x)))

(***************************************************************************)
(* str.encode('utf-8') and bytes.decode('utf-8').  A character below       *)
(* U+0080 is one byte of the same name; U+00E9 is the bytes C3 A9.         *)
(***************************************************************************)
LeadBytes == {"xC3"}
ContBytes == {"xA9"}

\* the concatenation of a sequence of sequences
RECURSIVE Concat(_)
Concat(ss) ==
    IF ss = <<>> THEN <<>>
    ELSE IF Len(ss) = 1 THEN ss[1]
    ELSE LET h == Len(ss) \div 2 IN
         Concat(SubSeq(ss, 1, h)) \o Concat(SubSeq(ss, h + 1, Len(ss)))

encode(s) ==
    Concat([i \in 1..Len(s) |->
              IF s[i] = "U+00E9" THEN <<"xC3", "xA9">> ELSE <<s[i]>>])

\* [ok |-> FALSE] is UnicodeDecodeError
decode(b) ==
    IF \E i \in 1..Len(b) :
          \/ b[i] \in ContBytes /\ (i = 1 \/ b[i - 1] \notin LeadBytes)
          \/ b[i] \in LeadBytes /\ (i = Len(b) \/ b[i + 1] \notin ContBytes)
    THEN [ok |-> FALSE]
    ELSE [ok |-> TRUE,
          s |-> Concat([i \in 1..Len(b) |->
                          IF b[i] \in ContBytes THEN <<>>
                          ELSE IF b[i] \in LeadBytes THEN <<"U+00E9">>
                          ELSE <<b[i]>>])]

DropLast_Nothing(s) == s

\* s[:-1]
DropLast(s) == IF s = <<>> THEN <<>> ELSE SubSeq(s, 1, Len(s) - 1)

(***************************************************************************)
(* json.dumps with the default separators ", " and ": ".                   *)
(***************************************************************************)
RECURSIVE Digits(_)
Digits(n) == IF n < 10 THEN <<DigitChars[n + 1]>>
             ELSE Digits(n \div 10) \o <<DigitChars[(n % 10) + 1]>>

DumpStr(cs) == <<Quote>> \o cs \o <<Quote>>

RECURSIVE dumps(_), DumpElems(_, _), DumpItems(_, _)
dumps(x) ==
    CASE x.t = "str" -> DumpStr(x.v)
      [] x.t = "int" -> Digits(x.v)
      [] x.t = "bool" -> IF x.v THEN <<"t", "r", "u", "e">>
                         ELSE <<"f", "a", "l", "s", "e">>
      [] x.t = "None" -> <<"n", "u", "l", "l">>
      [] x.t = "list" -> <<"[">> \o DumpElems(x.v, 1) \o <<"]">>
      [] x.t = "dict" -> <<"{">> \o DumpItems(x.v, 1) \o <<"}">>
DumpElems(xs, i) ==
    IF i > Len(xs) THEN <<>>
    ELSE (IF i > 1 THEN <<",", " ">> ELSE <<>>) \o dumps(xs[i])
         \o DumpElems(xs, i + 1)
DumpItems(items, i) ==
    IF i > Len(items) THEN <<>>
    ELSE (IF i > 1 THEN <<",", " ">> ELSE <<>>) \o DumpStr(items[i].k)
         \o <<":", " ">> \o dumps(items[i].v) \o DumpItems(items, i + 1)

(***************************************************************************)
(* json.loads: [ok |-> FALSE] is json.JSONDecodeError.                     *)
(***************************************************************************)
Fail == [ok |-> FALSE]
Got(x, j) == [ok |-> TRUE, val |-> x, next |-> j]

RECURSIVE SkipWs(_, _)
SkipWs(s, i) ==
    IF i <= Len(s) /\ s[i] \in Whitespace THEN SkipWs(s, i + 1) ELSE i

\* i is the position after the opening quote
RECURSIVE ScanString(_, _, _)
ScanString(s, i, acc) ==
    IF i > Len(s) THEN Fail
    ELSE IF s[i] = Quote THEN Got(JStr(acc), i + 1)
    ELSE IF s[i] \in ControlChars THEN Fail
    ELSE ScanString(s, i + 1, Append(acc, s[i]))

RECURSIVE ScanDigits(_, _, _)
ScanDigits(s, i, acc) ==
    IF i <= Len(s) /\ s[i] \in DigitSet
    THEN ScanDigits(s, i + 1, acc * 10 + DigitVal(s[i]))
    ELSE Got(JInt(acc), i)

Matches(s, i, word) ==
    /\ i + Len(word) - 1 <= Len(s)
    /\ SubSeq(s, i, i + Len(word) - 1) = word

RECURSIVE ScanValue(_, _), ScanElems(_, _, _), ScanItems(_, _, _)
ScanValue(s, i) ==
    IF i > Len(s) THEN Fail
    ELSE IF s[i] = Quote THEN ScanString(s, i + 1, <<>>)
    ELSE IF s[i] = "{"
         THEN LET j == SkipWs(s, i + 1) IN
              IF j <= Len(s) /\ s[j] = "}" THEN Got(JDict(<<>>), j + 1)
              ELSE ScanItems(s, j, JDict(<<>>))
    ELSE IF s[i] = "["
         THEN LET j == SkipWs(s, i + 1) IN
              IF j <= Len(s) /\ s[j] = "]" THEN Got(JList(<<>>), j + 1)
              ELSE ScanElems(s, j, <<>>)
    ELSE IF s[i] = "0" THEN Got(JInt(0), i + 1)
    ELSE IF s[i] \in DigitSet THEN ScanDigits(s, i, 0)
    ELSE IF Matches(s, i, <<"n", "u", "l", "l">>) THEN Got(None, i + 4)
    ELSE IF Matches(s, i, <<"t", "r", "u", "e">>) THEN Got(JBool(TRUE), i + 4)
    ELSE IF Matches(s, i, <<"f", "a", "l", "s", "e">>)
         THEN Got(JBool(FALSE), i + 5)
    ELSE Fail
\* i is the position of the next element
ScanElems(s, i, acc) ==
    LET e == ScanValue(s, i) IN
    IF ~e.ok THEN Fail
    ELSE LET j == SkipWs(s, e.next) IN
         IF j > Len(s) THEN Fail
         ELSE IF s[j] = "]" THEN Got(JList(Append(acc, e.val)), j + 1)
         ELSE IF s[j] = "," THEN ScanElems(s, SkipWs(s, j + 1), Append(acc, e.val))
         ELSE Fail
\* i is the position of the next key
ScanItems(s, i, acc) ==
    IF i > Len(s) \/ s[i] # Quote THEN Fail
    ELSE LET k == ScanString(s, i + 1, <<>>) IN
         IF ~k.ok THEN Fail
         ELSE LET c == SkipWs(s, k.next) IN
              IF c > Len(s) \/ s[c] # ":" THEN Fail
              ELSE LET e == ScanValue(s, SkipWs(s, c + 1)) IN
                   IF ~e.ok THEN Fail
                   ELSE LET j == SkipWs(s, e.next)
                            d == DictSet(acc, k.val.v, e.val) IN
                        IF j > Len(s) THEN Fail
                        ELSE IF s[j] = "}" THEN Got(d, j + 1)
                        ELSE IF s[j] = "," THEN ScanItems(s, SkipWs(s, j + 1), d)
                        ELSE Fail

loads(s) ==
    LET r == ScanValue(s, SkipWs(s, 1)) IN
    IF ~r.ok THEN Fail
    ELSE IF SkipWs(s, r.next) <= Len(s) THEN Fail   \* Extra data
    ELSE [ok |-> TRUE, val |-> r.val]

(***************************************************************************)
(* Subscripting, truth value and the strings the transport compares with.  *)
(***************************************************************************)
K_STATUS == <<"S", "T", "A", "T", "U", "S">>
K_Msg == <<"M", "s", "g">>
K_id == <<"i", "d">>
K_command == <<"c", "o", "m", "m", "a", "n", "d">>
K_parameter == <<"p", "a", "r", "a", "m", "e", "t", "e", "r">>
SuccessCodes == {<<"S">>, <<"I">>}

Val(x) == [err |-> "", val |-> x]
Err(e) == [err |-> e, val |-> None]

\* x[k] for k a str or an int
Subscript(x, k) ==
    CASE x.t = "dict" ->
            IF k.t = "str" /\ HasKey(x, k.v) THEN Val(Lookup(x, k.v))
            ELSE Err("KeyError")
      [] x.t = "list" ->
            IF k.t # "int" THEN Err("TypeError")
            ELSE IF k.v + 1 <= Len(x.v) THEN Val(x.v[k.v + 1])
            ELSE Err("IndexError")
      [] x.t = "str" ->
            IF k.t # "int" THEN Err("TypeError")
            ELSE IF k.v + 1 <= Len(x.v) THEN Val(JStr(<<x.v[k.v + 1]>>))
            ELSE Err("IndexError")
      [] OTHER -> Err("TypeError")

\* x[ks[1]][ks[2]]..., stopping at the first subscript that raises
RECURSIVE Path(_, _)
Path(x, ks) ==
    IF ks = <<>> THEN Val(x)
    ELSE LET r == Subscript(x, Head(ks)) IN
         IF r.err # "" THEN r ELSE Path(r.val, Tail(ks))

Truthy(x) ==
    CASE x.t \in {"str", "list", "dict"} -> x.v # <<>>
      [] x.t = "int" -> x.v # 0
      [] x.t = "bool" -> x.v
      [] OTHER -> FALSE

Return(x) == [kind |-> "return", exc |-> "", value |-> x]
Raise(e, m) == [kind |-> "raise", exc |-> e, value |-> m]

\* APIError(*args): the exception carries args[0] as its message
APIError(message) == Raise("APIError", message)

GenericMessage ==
    <<"I", "n", "c", "o", "r", "r", "e", "c", "t", " ", "A", "P", "I", " ",
      "p", "a", "r", "a", "m", "e", "t", "e", "r", "s", ".">>

\* APIError.__str__ of an exception whose message is a str or None
APIErrorStr(e) == IF Truthy(e.value) THEN e.value.v ELSE GenericMessage

\* raise APIError(data["STATUS"][0]["Msg"])
RaiseStatusMsg(d) ==
    LET m == Path(d, <<JStr(K_STATUS), JInt(0), JStr(K_Msg)>>) IN
    IF m.err # "" THEN Raise(m.err, None) ELSE APIError(m.val)

IsSuccess(x) == x.t = "str" /\ x.v \in SuccessCodes

\* the loop without its test `if not key == "id"'
RECURSIVE CheckMulti_InspectsId(_, _)
CheckMulti_InspectsId(d, i) ==
    IF i > Len(d.v) THEN Return(d)
    ELSE LET st == Path(d, <<JStr(d.v[i].k), JInt(0), JStr(K_STATUS),
                             JInt(0), JStr(K_STATUS)>>) IN
         IF st.err # "" THEN Raise(st.err, None)
         ELSE IF IsSuccess(st.val) THEN CheckMulti_InspectsId(d, i + 1)
         ELSE RaiseStatusMsg(d)

\* the loop over data.keys() of a multicommand response, from item i on
RECURSIVE CheckMulti(_, _)
CheckMulti(d, i) ==
    IF i > Len(d.v) THEN Return(d)
    ELSE IF d.v[i].k = K_id THEN CheckMulti(d, i + 1)
    ELSE LET st == Path(d, <<JStr(d.v[i].k), JInt(0), JStr(K_STATUS),
                             JInt(0), JStr(K_STATUS)>>) IN
         IF st.err # "" THEN Raise(st.err, None)
         ELSE IF IsSuccess(st.val) THEN CheckMulti(d, i + 1)
         ELSE RaiseStatusMsg(d)

\* the status check of send_command and its return
CheckStatus(d) ==
    IF d.t # "dict" THEN Raise("AttributeError", None)    \* no keys()
    ELSE IF ~HasKey(d, K_STATUS) THEN CheckMulti(d, 1)
    ELSE LET st == Path(d, <<JStr(K_STATUS), JInt(0), JStr(K_STATUS)>>) IN
         IF st.err # "" THEN Raise(st.err, None)
         ELSE IF IsSuccess(st.val) THEN Return(d)
         ELSE RaiseStatusMsg(d)

(***************************************************************************)
(* The request: multicommand joins the names, send_command builds cmd.     *)
(***************************************************************************)
RECURSIVE Join(_, _)
Join(sep, names) ==
    IF names = <<>> THEN <<>>
    ELSE IF Len(names) = 1 THEN names[1]
    ELSE names[1] \o sep \o Join(sep, Tail(names))

\* the arguments multicommand passes to send_command
multicommand(commands) ==
    [command |-> Join(<<"+">>, commands), parameters |-> None]

\* `if parameters:' in place of `if parameters is not None:'
BuildCmd_Truthy(cmd, params) ==
    LET c == JDict(<<Item(K_command, JStr(cmd))>>) IN
    IF Truthy(params) THEN DictSet(c, K_parameter, params) ELSE c

\* cmd = {"command": command}; cmd["parameter"] = parameters if given
BuildCmd(cmd, params) ==
    LET c == JDict(<<Item(K_command, JStr(cmd))>>) IN
    IF params # None THEN DictSet(c, K_parameter, params) ELSE c

RequestBytes(cmd, params) == encode(dumps(BuildCmd(cmd, params)))

(***************************************************************************)
(* The device: the documents it answers with and how it frames them.       *)
(***************************************************************************)
Sentinel == "NUL"
Codes == {<<"S">>, <<"I">>, <<"E">>}
\* an optional Msg: no Msg, "bad" or a non-ASCII message
Msgs == {<<>>, << <<"b", "a", "d">> >>, << <<"U+00E9">> >>}
MultiMsgs == {<<>>, << <<"b", "a", "d">> >>}
FirstCodes == {<<"S">>, <<"E">>}
IdPlaces == {"none", "last"}
Tails == {<<Sentinel>>, <<>>, <<Sentinel, Sentinel>>, <<"\n">>, <<"xA9">>}
DevModes == {"refuse", "reset", "respond", "hold"}
NoDoc == [t |-> "nothing", v |-> <<>>]

StatusEntry(code, msg) ==
    JDict(<<Item(K_STATUS, JStr(code))>>
          \o (IF msg = <<>> THEN <<>> ELSE <<Item(K_Msg, JStr(msg[1]))>>))
SingleDoc(code, msg) ==
    JDict(<<Item(K_STATUS, JList(<<StatusEntry(code, msg)>>))>>)
SubDoc(code, msg) ==
    JList(<<JDict(<<Item(K_STATUS, JList(<<StatusEntry(code, msg)>>))>>)>>)
Cmd1 == <<"c", "m", "d", "1">>
Cmd2 == <<"c", "m", "d", "2">>
MultiDoc(c1, c2, msg, idPlace) ==
    JDict(<<Item(Cmd1, SubDoc(c1, << <<"m", "1">> >>)),
            Item(Cmd2, SubDoc(c2, msg))>>
          \o (IF idPlace = "last" THEN <<Item(K_id, JInt(1))>> ELSE <<>>))

RespBytes(doc, tail) ==
    (IF doc = NoDoc THEN <<>> ELSE encode(dumps(doc))) \o tail

\* the sizes in which the bytes w still to come can arrive after the bytes d:
\* all of them or all but the last one, and a first segment of one byte
Segments(d, w) ==
    {k \in {Len(w) - 1, Len(w)} \cup (IF d = <<>> THEN {1} ELSE {}) : k >= 1}

(***************************************************************************)
(* The calls made on a handle.                                             *)
(***************************************************************************)
ReadSize == 4096
CommandNames == {<<"s", "t", "a", "t", "s">>}
ParamChoices == <<None, JDict(<<>>), JDict(<<Item(<<"x">>, JInt(1))>>)>>
JoinedNames == {Cmd1, Cmd2}
NameLists == UNION {[1..n -> JoinedNames] : n \in 0..MaxCmds}
NoOutcome == [kind |-> "none", exc |-> "", value |-> None]
NoConn == [id |-> 0, state |-> "none"]
Min(a, b) == IF a < b THEN a ELSE b

TInit ==
    /\ pc = "idle"
    /\ callNo = 0
    /\ entry = "none"
    /\ command = <<>>
    /\ parameters = None
    /\ joined = <<>>
    /\ devMode = "none"
    /\ wire = <<>>
    /\ data = <<>>
    /\ conn = NoConn
    /\ opened = <<>>
    /\ written = <<>>
    /\ request = <<>>
    /\ outcome = NoOutcome
    /\ respDoc = NoDoc
    /\ respTail = <<>>

\* a caller enters send_command(command, parameters)
CallSendCommand ==
    /\ UNCHANGED <<hvars, ovars>>
    /\ pc = "idle" /\ callNo < MaxCalls
    /\ \E c \in CommandNames, i \in 1..Len(ParamChoices) :
          /\ command' = c
          /\ parameters' = ParamChoices[i]
    /\ entry' = "send_command"
    /\ joined' = <<>>
    /\ callNo' = callNo + 1
    /\ pc' = "connect"
    /\ UNCHANGED <<devMode, wire, data, conn, opened, written, request,
                   outcome, respDoc, respTail>>

\* a caller enters multicommand(*commands)
CallMulticommand ==
    /\ UNCHANGED <<hvars, ovars>>
    /\ pc = "idle" /\ callNo < MaxCalls
    /\ \E names \in NameLists :
          /\ joined' = names
          /\ command' = multicommand(names).command
          /\ parameters' = multicommand(names).parameters
    /\ entry' = "multicommand"
    /\ callNo' = callNo + 1
    /\ pc' = "connect"
    /\ UNCHANGED <<devMode, wire, data, conn, opened, written, request,
                   outcome, respDoc, respTail>>

\* a handle that keeps its connection and opens one only when it has none
OpenConnection_Reuse(log, c) == IF log = <<>> THEN Append(log, c) ELSE log

\* the connections made so far, after the open_connection of call c
OpenConnection(log, c) == Append(log, c)

\* await asyncio.open_connection(self.ip, self.port)
Connect ==
    /\ UNCHANGED <<hvars, ovars>>
    /\ pc = "connect"
    /\ opened' = OpenConnection(opened, callNo)
    /\ \E m \in DevModes :
          /\ devMode' = m
          /\ IF m = "refuse"
             THEN /\ pc' = "raised"
                  /\ outcome' = Raise("ConnectionRefusedError", None)
                  /\ conn' = conn
             ELSE /\ pc' = "write"
                  /\ outcome' = outcome
                  /\ conn' = [id |-> Len(opened'), state |-> "open"]
    /\ UNCHANGED <<callNo, entry, command, parameters, joined, wire, data,
                   written, request, respDoc, respTail>>

\* the device picks its answer to the request it received
Answers(doc, tail) ==
    /\ respDoc' = doc
    /\ respTail' = tail
    /\ wire' = RespBytes(doc, tail)

\* writer.write(json.dumps(cmd).encode('utf-8')); await writer.drain()
Write ==
    /\ UNCHANGED <<hvars, ovars>>
    /\ pc = "write"
    /\ request' = RequestBytes(command, parameters)
    /\ written' = Append(written, [call |-> callNo, conn |-> conn.id])
    /\ data' = <<>>
    /\ IF devMode = "reset"
       THEN /\ pc' = "raised"
            /\ outcome' = Raise("ConnectionResetError", None)
            /\ UNCHANGED <<wire, respDoc, respTail>>
       ELSE /\ pc' = "read"
            /\ outcome' = outcome
            /\ \E tail \in Tails :
                 \/ Answers(NoDoc, tail)
                 \/ \E c \in Codes, m \in Msgs : Answers(SingleDoc(c, m), tail)
                 \/ \E c1 \in FirstCodes, c2 \in Codes, m \in MultiMsgs,
                          p \in IdPlaces :
                       Answers(MultiDoc(c1, c2, m, p), tail)
    /\ UNCHANGED <<callNo, entry, command, parameters, joined, devMode, conn,
                   opened>>

\* d = await reader.read(4096) returning bytes; data += d
Read ==
    /\ UNCHANGED <<hvars, ovars>>
    /\ pc = "read" /\ wire # <<>>
    /\ \E k \in Segments(data, wire) :
          LET n == Min(k, ReadSize) IN
          /\ data' = data \o SubSeq(wire, 1, n)
          /\ wire' = SubSeq(wire, n + 1, Len(wire))
    /\ UNCHANGED <<pc, callNo, entry, command, parameters, joined, devMode,
                   conn, opened, written, request, outcome, respDoc, respTail>>

\* d = await reader.read(4096) returning b"" at EOF; break
ReadEOF ==
    /\ UNCHANGED <<hvars, ovars>>
    /\ pc = "read" /\ wire = <<>>
    /\ devMode = "respond"
    /\ pc' = "decode"
    /\ UNCHANGED <<callNo, entry, command, parameters, joined, devMode, wire,
                   data, conn, opened, written, request, outcome, respDoc,
                   respTail>>

\* data = json.loads(data.decode('utf-8')[:-1])
Decode ==
    /\ UNCHANGED <<hvars, ovars>>
    /\ pc = "decode"
    /\ LET d == decode(data) IN
       IF ~d.ok
       THEN /\ pc' = "raised"
            /\ outcome' = Raise("UnicodeDecodeError", None)
            /\ data' = data
       ELSE LET r == loads(DropLast(d.s)) IN
            IF ~r.ok
            THEN /\ pc' = "raised"
                 /\ outcome' = Raise("JSONDecodeError", None)
                 /\ data' = data
            ELSE /\ pc' = "close"
                 /\ outcome' = outcome
                 /\ data' = r.val
    /\ UNCHANGED <<callNo, entry, command, parameters, joined, devMode, wire,
                   conn, opened, written, request, respDoc, respTail>>

\* writer.close(); await writer.wait_closed()
Close ==
    /\ UNCHANGED <<hvars, ovars>>
    /\ pc = "close"
    /\ conn' = [conn EXCEPT !.state = "closed"]
    /\ pc' = "check"
    /\ UNCHANGED <<callNo, entry, command, parameters, joined, devMode, wire,
                   data, opened, written, request, outcome, respDoc, respTail>>

\* the status check, then return data
Check ==
    /\ UNCHANGED <<hvars, ovars>>
    /\ pc = "check"
    /\ outcome' = CheckStatus(data)
    /\ pc' = IF CheckStatus(data).kind = "return" THEN "returned" ELSE "raised"
    /\ UNCHANGED <<callNo, entry, command, parameters, joined, devMode, wire,
                   data, conn, opened, written, request, respDoc, respTail>>

\* the call is over; the handle is ready for the next call
Finish ==
    /\ UNCHANGED <<hvars, ovars>>
    /\ pc \in {"returned", "raised"}
    /\ pc' = "idle"
    /\ entry' = "none"
    /\ command' = <<>>
    /\ parameters' = None
    /\ joined' = <<>>
    /\ devMode' = "none"
    /\ wire' = <<>>
    /\ data' = <<>>
    /\ conn' = NoConn
    /\ request' = <<>>
    /\ outcome' = NoOutcome
    /\ respDoc' = NoDoc
    /\ respTail' = <<>>
    /\ UNCHANGED <<callNo, opened, written>>

Next ==
    \/ CallSendCommand
    \/ CallMulticommand
    \/ Connect
    \/ Write
    \/ Read
    \/ ReadEOF
    \/ Decode
    \/ Close
    \/ Check
    \/ Finish

(***************************************************************************)
(* The telemetry backend of src/pyasic/miners/backends/antminer.py.        *)
(* K_x is the key "x" the backend looks up in a payload, S_x the text "x"  *)
(* it compares a value with.                                               *)
(***************************************************************************)
K_hostname == <<"h", "o", "s", "t", "n", "a", "m", "e">>
K_macaddr == <<"m", "a", "c", "a", "d", "d", "r">>
K_SUMMARY == <<"S", "U", "M", "M", "A", "R", "Y">>
K_status == <<"s", "t", "a", "t", "u", "s">>
K_msg == <<"m", "s", "g">>
K_STATS == <<"S", "T", "A", "T", "S">>
K_chain == <<"c", "h", "a", "i", "n">>
K_index == <<"i", "n", "d", "e", "x">>
K_rate_real == <<"r", "a", "t", "e", "_", "r", "e", "a", "l">>
K_asic_num == <<"a", "s", "i", "c", "_", "n", "u", "m">>
K_temp_pcb == <<"t", "e", "m", "p", "_", "p", "c", "b">>
K_temp_chip == <<"t", "e", "m", "p", "_", "c", "h", "i", "p">>
K_sn == <<"s", "n">>
K_blink == <<"b", "l", "i", "n", "k">>
K_total_rateideal == <<"t", "o", "t", "a", "l", "_", "r", "a", "t", "e", "i", "d", "e", "a", "l">>
K_rate_unit == <<"r", "a", "t", "e", "_", "u", "n", "i", "t">>
K_Elapsed == <<"E", "l", "a", "p", "s", "e", "d">>
K_POOLS == <<"P", "O", "O", "L", "S">>
K_URL == <<"U", "R", "L">>
K_Accepted == <<"A", "c", "c", "e", "p", "t", "e", "d">>
K_Rejected == <<"R", "e", "j", "e", "c", "t", "e", "d">>
K_Get_Failures == <<"G", "e", "t", " ", "F", "a", "i", "l", "u", "r", "e", "s">>
K_Remote_Failures == <<"R", "e", "m", "o", "t", "e", " ", "F", "a", "i", "l", "u", "r", "e", "s">>
K_Stratum_Active == <<"S", "t", "r", "a", "t", "u", "m", " ", "A", "c", "t", "i", "v", "e">>
K_Status == <<"S", "t", "a", "t", "u", "s">>
K_User == <<"U", "s", "e", "r">>
K_POOL == <<"P", "O", "O", "L">>
K_bitmain_work_mode == <<"b", "i", "t", "m", "a", "i", "n", "-", "w", "o", "r", "k", "-", "m", "o", "d", "e">>
S_s == <<"s">>
S_GH == <<"G", "H">>
S_TH == <<"T", "H">>
S_Alive == <<"A", "l", "i", "v", "e">>

\* the field descriptor table: field -> extraction function and the names
\* of the commands it depends on
ANTMINER_MODERN_DATA_LOC ==
    [mac |-> [cmd |-> "_get_mac", kwargs |-> <<"web_get_system_info">>],
     api_ver |-> [cmd |-> "_get_api_ver", kwargs |-> <<"rpc_version">>],
     fw_ver |-> [cmd |-> "_get_fw_ver", kwargs |-> <<"rpc_version">>],
     hostname |-> [cmd |-> "_get_hostname", kwargs |-> <<"web_get_system_info">>],
     hashrate |-> [cmd |-> "_get_hashrate", kwargs |-> <<"rpc_summary">>],
     expected_hashrate |-> [cmd |-> "_get_expected_hashrate",
                            kwargs |-> <<"rpc_stats">>],
     fans |-> [cmd |-> "_get_fans", kwargs |-> <<"rpc_stats">>],
     errors |-> [cmd |-> "_get_errors", kwargs |-> <<"web_summary">>],
     fault_light |-> [cmd |-> "_get_fault_light",
                      kwargs |-> <<"web_get_blink_status">>],
     hashboards |-> [cmd |-> "_get_hashboards", kwargs |-> <<>>],
     is_mining |-> [cmd |-> "_is_mining", kwargs |-> <<"web_get_conf">>],
     is_sleep |-> [cmd |-> "_is_sleep", kwargs |-> <<>>],
     uptime |-> [cmd |-> "_get_uptime", kwargs |-> <<"rpc_stats">>],
     pools |-> [cmd |-> "_get_pools", kwargs |-> <<"rpc_pools">>]]

\* the fields whose extraction function is defined by AntminerModern itself
\* (the others are inherited from BMMiner)
ModernFields ==
    {"mac", "hostname", "expected_hashrate", "errors", "fault_light",
     "hashboards", "is_mining", "is_sleep", "uptime", "pools"}

\* a command executed: its payload, or the exception it raised
Ok(x) == [ok |-> TRUE, val |-> x, exc |-> ""]
Failed(e) == [ok |-> FALSE, val |-> None, exc |-> e]

\* the result of an extraction function: the value returned or the exception
\* raised, the commands it executed itself, and self.light after the call
Returns(x, io, l) == [ret |-> x, exc |-> "", io |-> io, light |-> l]
Raises(e, io, l) == [ret |-> None, exc |-> e, io |-> io, light |-> l]

\* `if x is None: try: x = await <cmd>() except APIError: pass'
Fetched(arg, cmd, ans) ==
    IF arg # None THEN [val |-> arg, io |-> <<>>, exc |-> ""]
    ELSE IF ans[cmd].ok THEN [val |-> ans[cmd].val, io |-> <<cmd>>, exc |-> ""]
    ELSE IF ans[cmd].exc = "APIError"
         THEN [val |-> None, io |-> <<cmd>>, exc |-> ""]
    ELSE [val |-> None, io |-> <<cmd>>, exc |-> ans[cmd].exc]

\* x.get(k, default)
Get(x, k, default) ==
    IF x.t # "dict" THEN Err("AttributeError")
    ELSE IF HasKey(x, k) THEN Val(Lookup(x, k))
    ELSE Val(default)

LookupErrors == {"KeyError", "IndexError"}

\* str(x).isdigit()
IsDigit(x) ==
    CASE x.t = "str" -> x.v # <<>> /\ \A i \in 1..Len(x.v) : x.v[i] \in DigitSet
      [] x.t = "int" -> x.v >= 0
      [] OTHER -> FALSE

\* int(x) and float(x) of an int or of a str
Number(x) ==
    CASE x.t = "int" -> Val(x)
      [] x.t = "str" -> IF IsDigit(x) THEN Val(ScanDigits(x.v, 1, 0).val)
                        ELSE Err("ValueError")
      [] OTHER -> Err("TypeError")

\* AntminerModern._get_hostname
_get_hostname(web_get_system_info, l, ans) ==
    LET f == Fetched(web_get_system_info, "web_get_system_info", ans)
        h == Subscript(f.val, JStr(K_hostname)) IN
    IF f.exc # "" THEN Raises(f.exc, f.io, l)
    ELSE IF f.val = None \/ h.err = "KeyError" THEN Returns(None, f.io, l)
    ELSE IF h.err # "" THEN Raises(h.err, f.io, l)
    ELSE Returns(h.val, f.io, l)

\* AntminerModern._get_mac
_get_mac(web_get_system_info, l, ans) ==
    LET f == Fetched(web_get_system_info, "web_get_system_info", ans)
        m == Subscript(f.val, JStr(K_macaddr))
        n == ans["web_get_network_info"]
        io == f.io \o <<"web_get_network_info">>
        nm == Subscript(n.val, JStr(K_macaddr)) IN
    IF f.exc # "" THEN Raises(f.exc, f.io, l)
    ELSE IF f.val # None /\ m.err = "" THEN Returns(m.val, f.io, l)
    ELSE IF f.val # None /\ m.err # "KeyError" THEN Raises(m.err, f.io, l)
    ELSE IF ~n.ok THEN Raises(n.exc, io, l)
    ELSE IF ~Truthy(n.val) \/ nm.err = "KeyError" THEN Returns(None, io, l)
    ELSE IF nm.err # "" THEN Raises(nm.err, io, l)
    ELSE Returns(nm.val, io, l)

X19Error(message) == [t |-> "X19Error", v |-> message]

\* the loop of _get_errors over the status items, from item i on
RECURSIVE ErrorsOf(_, _, _)
ErrorsOf(items, i, errors) ==
    IF i > Len(items) THEN Val(errors)
    ELSE LET st == Subscript(items[i], JStr(K_status))
             msg == Subscript(items[i], JStr(K_msg)) IN
         IF st.err = "KeyError" THEN ErrorsOf(items, i + 1, errors)
         ELSE IF st.err # "" THEN Err(st.err)
         ELSE IF st.val = JStr(S_s) THEN ErrorsOf(items, i + 1, errors)
         ELSE IF msg.err = "KeyError" THEN ErrorsOf(items, i + 1, errors)
         ELSE IF msg.err # "" THEN Err(msg.err)
         ELSE ErrorsOf(items, i + 1, Append(errors, X19Error(msg.val)))

\* AntminerModern._get_errors
_get_errors(web_summary, l, ans) ==
    LET f == Fetched(web_summary, "web_summary", ans)
        st == Path(f.val, <<JStr(K_SUMMARY), JInt(0), JStr(K_status)>>)
        es == IF st.val.t = "list" THEN ErrorsOf(st.val.v, 1, <<>>)
              ELSE IF st.val.t \in {"str", "dict"} /\ st.val.v = <<>>
                   THEN Val(<<>>)
              ELSE Err("TypeError") IN
    IF f.exc # "" THEN Raises(f.exc, f.io, l)
    ELSE IF f.val = None \/ st.err \in LookupErrors THEN Returns(JList(<<>>), f.io, l)
    ELSE IF st.err # "" THEN Raises(st.err, f.io, l)
    ELSE IF es.err # "" THEN Raises(es.err, f.io, l)
    ELSE Returns(JList(es.val), f.io, l)

\* AlgoHashRate: algo.hashrate(rate=rate, unit=unit).into(algo.unit.default);
\* the scaling to the default unit is kept symbolic
Hashrate(rate, unit) ==
    [t |-> "hashrate", v |-> [rate |-> rate, unit |-> unit, into |-> S_TH]]

\* self.expected_chips: None unless the class of the model sets it
expected_chips == None

HashBoard(slot) ==
    [slot |-> slot, expected_chips |-> expected_chips, hashrate |-> None,
     chips |-> None, temp |-> None, chip_temp |-> None,
     serial_number |-> None, missing |-> TRUE]

RECURSIVE Sum(_)
Sum(xs) == IF xs = <<>> THEN 0 ELSE Head(xs).v + Sum(Tail(xs))

\* a filter that keeps every reading, the zeros too
NonZero_AnyReading(x) == TRUE

\* `temp != 0' of the comprehension over the readings
NonZero(x) == x # JInt(0)

\* sum(valid) / len(valid) over the non-zero readings: the quotient as a
\* fraction, None when the reading is falsy or has no non-zero entry
Average(reading) ==
    IF ~Truthy(reading) THEN Val(None)
    ELSE IF reading.t # "list" \/ \E i \in 1..Len(reading.v) : reading.v[i].t # "int"
         THEN Err("TypeError")
    ELSE LET valid == SelectSeq(reading.v, NonZero) IN
         IF valid = <<>> THEN Val(None)
         ELSE Val([t |-> "float", v |-> <<Sum(valid), Len(valid)>>])

\* one pass of the loop of _get_hashboards over a board of the chain
BoardOf(board) ==
    LET hb == HashBoard(Lookup(board, K_index))
        hasRate == HasKey(board, K_rate_real) /\ Lookup(board, K_rate_real) # None
        rate == Number(Lookup(board, K_rate_real))
        hasChips == HasKey(board, K_asic_num) /\ Lookup(board, K_asic_num) # None
        temp == Average(Get(board, K_temp_pcb, None).val)
        chip_temp == Average(Get(board, K_temp_chip, None).val) IN
    IF hasRate /\ rate.err # "" THEN Err(rate.err)
    ELSE IF temp.err # "" THEN Err(temp.err)
    ELSE IF chip_temp.err # "" THEN Err(chip_temp.err)
    ELSE Val([hb EXCEPT
               !.hashrate = IF hasRate THEN Hashrate(rate.val, S_GH) ELSE None,
               !.chips = IF hasChips THEN Lookup(board, K_asic_num) ELSE None,
               !.temp = temp.val,
               !.chip_temp = chip_temp.val,
               !.serial_number = IF HasKey(board, K_sn) THEN Lookup(board, K_sn)
                                 ELSE None,
               !.missing = ~(hasRate \/ hasChips)])

\* the loop of _get_hashboards over the chain, from board i on; an exception
\* ends the loop with the boards gathered so far
RECURSIVE BoardsOf(_, _, _)
BoardsOf(chain, i, boards_list) ==
    IF i > Len(chain) THEN boards_list
    ELSE IF chain[i].t = "list" THEN BoardsOf(chain, i + 1, boards_list)
    ELSE IF chain[i].t # "dict" THEN boards_list
    ELSE IF ~HasKey(chain[i], K_index) THEN BoardsOf(chain, i + 1, boards_list)
    ELSE LET hb == BoardOf(chain[i]) IN
         IF hb.err # "" THEN boards_list
         ELSE IF hb.val.missing THEN BoardsOf(chain, i + 1, boards_list)
         ELSE BoardsOf(chain, i + 1, Append(boards_list, hb.val))

\* AntminerModern._get_hashboards
_get_hashboards(l, ans) ==
    LET a == ans["rpc_stats_new_api"]
        io == <<"rpc_stats_new_api">>
        stats == Get(a.val, K_STATS, JList(<<>>))
        first == Subscript(stats.val, JInt(0))
        chain == Get(first.val, K_chain, JList(<<>>)) IN
    IF ~a.ok /\ a.exc = "APIError" THEN Returns(JList(<<>>), io, l)
    ELSE IF ~a.ok THEN Raises(a.exc, io, l)
    ELSE IF ~Truthy(a.val) THEN Returns(JList(<<>>), io, l)
    ELSE IF stats.err # "" \/ first.err # "" \/ chain.err # ""
         THEN Returns(JList(<<>>), io, l)
    ELSE IF chain.val.t # "list" THEN Returns(JList(<<>>), io, l)
    ELSE Returns(JList(BoardsOf(chain.val.v, 1, <<>>)), io, l)

\* _get_fault_light returning the flag as it was before the status was read
_get_fault_light_ReturnsOldFlag(web_get_blink_status, l, ans) ==
    LET f == Fetched(web_get_blink_status, "web_get_blink_status", ans)
        b == Subscript(f.val, JStr(K_blink)) IN
    IF Truthy(l) THEN Returns(l, <<>>, l)
    ELSE IF f.exc # "" THEN Raises(f.exc, f.io, l)
    ELSE IF f.val = None \/ b.err = "KeyError" THEN Returns(l, f.io, l)
    ELSE IF b.err # "" THEN Raises(b.err, f.io, l)
    ELSE Returns(l, f.io, b.val)

\* AntminerModern._get_fault_light
_get_fault_light(web_get_blink_status, l, ans) ==
    LET f == Fetched(web_get_blink_status, "web_get_blink_status", ans)
        b == Subscript(f.val, JStr(K_blink)) IN
    IF Truthy(l) THEN Returns(l, <<>>, l)
    ELSE IF f.exc # "" THEN Raises(f.exc, f.io, l)
    ELSE IF f.val = None \/ b.err = "KeyError" THEN Returns(l, f.io, l)
    ELSE IF b.err # "" THEN Raises(b.err, f.io, l)
    ELSE Returns(b.val, f.io, b.val)

K_code == <<"c", "o", "d", "e">>
S_B000 == <<"B", "0", "0", "0">>
S_B100 == <<"B", "1", "0", "0">>

\* fault_light_on taking any non-empty response for the confirmation
fault_light_on_AnyResponse(l, blinked) ==
    LET code == Get(blinked.val, K_code, None) IN
    IF ~blinked.ok THEN Raises(blinked.exc, <<"web_blink">>, l)
    ELSE IF ~Truthy(blinked.val) THEN Returns(l, <<"web_blink">>, l)
    ELSE IF code.err # "" THEN Raises(code.err, <<"web_blink">>, l)
    ELSE Returns(JBool(TRUE), <<"web_blink">>, JBool(TRUE))

\* AntminerModern.fault_light_on: blinked is the answer of web.blink(blink=True)
fault_light_on(l, blinked) ==
    LET code == Get(blinked.val, K_code, None) IN
    IF ~blinked.ok THEN Raises(blinked.exc, <<"web_blink">>, l)
    ELSE IF ~Truthy(blinked.val) THEN Returns(l, <<"web_blink">>, l)
    ELSE IF code.err # "" THEN Raises(code.err, <<"web_blink">>, l)
    ELSE IF code.val = JStr(S_B000)
         THEN Returns(JBool(TRUE), <<"web_blink">>, JBool(TRUE))
    ELSE Returns(l, <<"web_blink">>, l)

\* AntminerModern.fault_light_off: blinked is the answer of web.blink(blink=False)
fault_light_off(l, blinked) ==
    LET code == Get(blinked.val, K_code, None) IN
    IF ~blinked.ok THEN Raises(blinked.exc, <<"web_blink">>, l)
    ELSE IF ~Truthy(blinked.val) THEN Returns(l, <<"web_blink">>, l)
    ELSE IF code.err # "" THEN Raises(code.err, <<"web_blink">>, l)
    ELSE IF code.val = JStr(S_B100)
         THEN Returns(JBool(FALSE), <<"web_blink">>, JBool(FALSE))
    ELSE Returns(l, <<"web_blink">>, l)

\* AntminerModern._get_expected_hashrate
_get_expected_hashrate(rpc_stats, l, ans) ==
    LET f == Fetched(rpc_stats, "rpc_stats", ans)
        second == Path(f.val, <<JStr(K_STATS), JInt(1)>>)
        expected_rate == Subscript(second.val, JStr(K_total_rateideal))
        unit == Subscript(second.val, JStr(K_rate_unit))
        rate_unit == IF unit.err = "KeyError" THEN JStr(S_GH) ELSE unit.val
        rate == Number(expected_rate.val) IN
    IF f.exc # "" THEN Raises(f.exc, f.io, l)
    ELSE IF f.val = None THEN Returns(None, f.io, l)
    ELSE IF second.err \in LookupErrors THEN Returns(None, f.io, l)
    ELSE IF second.err # "" THEN Raises(second.err, f.io, l)
    ELSE IF expected_rate.err \in LookupErrors THEN Returns(None, f.io, l)
    ELSE IF expected_rate.err # "" THEN Raises(expected_rate.err, f.io, l)
    ELSE IF rate.err # "" THEN Raises(rate.err, f.io, l)
    ELSE Returns(Hashrate(rate.val, rate_unit.v), f.io, l)

\* the work mode of a configuration: `bitmain-work-mode' is 1
WorkModeIsSleep(conf) == Number(conf).val = JInt(1)

\* AntminerModern._is_mining
_is_mining(web_get_conf, l, ans) ==
    LET f == Fetched(web_get_conf, "web_get_conf", ans)
        m == Subscript(f.val, JStr(K_bitmain_work_mode)) IN
    IF f.exc # "" THEN Raises(f.exc, f.io, l)
    ELSE IF f.val = None \/ m.err \in LookupErrors THEN Returns(None, f.io, l)
    ELSE IF m.err # "" THEN Raises(m.err, f.io, l)
    ELSE IF IsDigit(m.val) THEN Returns(JBool(~WorkModeIsSleep(m.val)), f.io, l)
    ELSE Returns(JBool(FALSE), f.io, l)

\* AntminerModern._is_sleep
_is_sleep(web_get_conf, l, ans) ==
    LET f == Fetched(web_get_conf, "web_get_conf", ans)
        m == Subscript(f.val, JStr(K_bitmain_work_mode)) IN
    IF f.exc # "" THEN Raises(f.exc, f.io, l)
    ELSE IF f.val = None \/ m.err \in LookupErrors THEN Returns(None, f.io, l)
    ELSE IF m.err # "" THEN Raises(m.err, f.io, l)
    ELSE IF IsDigit(m.val) THEN Returns(JBool(WorkModeIsSleep(m.val)), f.io, l)
    ELSE Returns(JBool(FALSE), f.io, l)

\* AntminerModern._get_uptime
_get_uptime(rpc_stats, l, ans) ==
    LET f == Fetched(rpc_stats, "rpc_stats", ans)
        e == Path(f.val, <<JStr(K_STATS), JInt(1), JStr(K_Elapsed)>>)
        n == Number(e.val) IN
    IF f.exc # "" THEN Raises(f.exc, f.io, l)
    ELSE IF f.val = None \/ e.err \in LookupErrors THEN Returns(None, f.io, l)
    ELSE IF e.err # "" THEN Raises(e.err, f.io, l)
    ELSE IF n.err # "" THEN Raises(n.err, f.io, l)
    ELSE Returns(n.val, f.io, l)

\* PoolUrl.from_str(url), kept symbolic
PoolUrl(url) == [t |-> "PoolUrl", v |-> url.v]

\* PoolMetrics(...) of one entry of POOLS
PoolMetrics(pool_info) ==
    LET url == Get(pool_info, K_URL, None).val IN
    [accepted |-> Get(pool_info, K_Accepted, None).val,
     rejected |-> Get(pool_info, K_Rejected, None).val,
     get_failures |-> Get(pool_info, K_Get_Failures, None).val,
     remote_failures |-> Get(pool_info, K_Remote_Failures, None).val,
     active |-> Get(pool_info, K_Stratum_Active, None).val,
     alive |-> JBool(Get(pool_info, K_Status, None).val = JStr(S_Alive)),
     url |-> IF Truthy(url) THEN PoolUrl(url) ELSE None,
     user |-> Get(pool_info, K_User, None).val,
     index |-> Get(pool_info, K_POOL, None).val]

\* AntminerModern._get_pools
_get_pools(rpc_pools, l, ans) ==
    LET f == Fetched(rpc_pools, "rpc_pools", ans)
        pools == Get(f.val, K_POOLS, JList(<<>>)) IN
    IF f.exc # "" THEN Raises(f.exc, f.io, l)
    ELSE IF f.val = None THEN Returns(JList(<<>>), f.io, l)
    ELSE IF pools.err # "" THEN Raises(pools.err, f.io, l)
    ELSE IF pools.val.t # "list"
         THEN IF pools.val.t \in {"str", "dict"} /\ pools.val.v = <<>>
              THEN Returns(JList(<<>>), f.io, l)
              ELSE IF pools.val.t \in {"str", "dict"}
                   THEN Raises("AttributeError", f.io, l)
              ELSE Raises("TypeError", f.io, l)
    ELSE IF \E i \in 1..Len(pools.val.v) : pools.val.v[i].t # "dict"
         THEN Raises("AttributeError", f.io, l)
    ELSE Returns(JList([i \in 1..Len(pools.val.v) |->
                            PoolMetrics(pools.val.v[i])]), f.io, l)

(***************************************************************************)
(* AntminerOld: the handler of miners with the old web interface.  The     *)
(* readings of a stats payload are JSON numbers or texts.                  *)
(***************************************************************************)
K_chain_acn == <<"c", "h", "a", "i", "n", "_", "a", "c", "n">>
K_temp == <<"t", "e", "m", "p">>
K_temp2_ == <<"t", "e", "m", "p", "2", "_">>
K_chain_rate == <<"c", "h", "a", "i", "n", "_", "r", "a", "t", "e">>
K_fan == <<"f", "a", "n">>

\* self.expected_hashboards and self.expected_fans of the handle
expected_hashboards == 3
expected_fans == 4

\* f"{prefix}{i}"
Numbered(prefix, i) == prefix \o Digits(i)

\* round(x) of a number
Round(x) == IF x.t = "int" THEN Val(x) ELSE Err("TypeError")

\* the scan of _get_hashboards over range(1, 16, 5) x range(5): the first
\* group with a truthy chain_acn reading, 1 when there is none
BoardOffset(stats) ==
    LET hit(n) == \E b \in 0..4 :
                     Truthy(Get(stats, Numbered(K_chain_acn, n + b), None).val) IN
    IF hit(1) THEN 1 ELSE IF hit(6) THEN 6 ELSE IF hit(11) THEN 11 ELSE 1

\* one pass of the loop of AntminerOld._get_hashboards, for key index i
OldBoardOf(stats, i, board_offset) ==
    LET hb == HashBoard(JInt(i - board_offset))
        chip_temp == Get(stats, Numbered(K_temp, i), None).val
        temp == Get(stats, Numbered(K_temp2_, i), None).val
        hashrate == Get(stats, Numbered(K_chain_rate, i), None).val
        chips == Get(stats, Numbered(K_chain_acn, i), None).val
        rate == Number(hashrate) IN
    IF Truthy(chip_temp) /\ Round(chip_temp).err # "" THEN Err(Round(chip_temp).err)
    ELSE IF Truthy(temp) /\ Round(temp).err # "" THEN Err(Round(temp).err)
    ELSE IF Truthy(hashrate) /\ rate.err # "" THEN Err(rate.err)
    ELSE IF Truthy(chips) /\ chips.t # "int" THEN Err("TypeError")
    ELSE Val([hb EXCEPT
               !.chip_temp = IF Truthy(chip_temp) THEN Round(chip_temp).val ELSE None,
               !.temp = IF Truthy(temp) THEN Round(temp).val ELSE None,
               !.hashrate = IF Truthy(hashrate) THEN Hashrate(rate.val, S_GH)
                            ELSE None,
               !.chips = IF Truthy(chips) THEN chips ELSE None,
               !.missing = ~Truthy(chips) \/ ~(chips.v > 0)])

\* AntminerOld._get_hashboards
Old_get_hashboards(rpc_stats, l, ans) ==
    LET f == Fetched(rpc_stats, "rpc_stats", ans)
        boards == Subscript(f.val, JStr(K_STATS))
        second == Subscript(boards.val, JInt(1))
        placeholders == [i \in 1..expected_hashboards |-> HashBoard(JInt(i - 1))]
        board_offset == BoardOffset(second.val)
        made == [i \in 1..expected_hashboards |->
                    OldBoardOf(second.val, board_offset + i - 1, board_offset)]
        failed == {i \in 1..expected_hashboards : made[i].err # ""} IN
    IF f.exc # "" THEN Raises(f.exc, f.io, l)
    ELSE IF f.val = None THEN Returns(JList(<<>>), f.io, l)
    ELSE IF boards.err \in LookupErrors THEN Returns(JList(placeholders), f.io, l)
    ELSE IF boards.err # "" THEN Raises(boards.err, f.io, l)
    ELSE IF boards.val.t \notin {"list", "dict", "str"}
         THEN Raises("TypeError", f.io, l)
    ELSE IF Len(boards.val.v) <= 1 THEN Returns(JList(<<>>), f.io, l)
    ELSE IF second.err \in LookupErrors THEN Returns(JList(placeholders), f.io, l)
    ELSE IF second.err # "" THEN Raises(second.err, f.io, l)
    ELSE IF second.val.t # "dict" THEN Raises("AttributeError", f.io, l)
    ELSE IF failed # {}
         THEN Raises(made[CHOOSE i \in failed : \A j \in failed : i <= j].err,
                     f.io, l)
    ELSE Returns(JList([i \in 1..expected_hashboards |-> made[i].val]), f.io, l)

\* Fan(speed=...)
Fan(speed) == [speed |-> speed]

\* the scan of _get_fans over range(1, 8, 4) x range(4): fan_num + 2 for the
\* first group with a truthy fan reading, 3 when there is none
FanOffset(stats) ==
    LET hit(n) == \E k \in 0..3 :
                     Truthy(Get(stats, Numbered(K_fan, n + k), None).val) IN
    IF hit(1) THEN 1 + 2 ELSE IF hit(5) THEN 5 + 2 ELSE 3

\* AntminerOld._get_fans
Old_get_fans(rpc_stats, l, ans) ==
    LET f == Fetched(rpc_stats, "rpc_stats", ans)
        second == Path(f.val, <<JStr(K_STATS), JInt(1)>>)
        fans_data == [i \in 1..expected_fans |-> Fan(None)]
        fan_offset == FanOffset(second.val) IN
    IF f.exc # "" THEN Raises(f.exc, f.io, l)
    ELSE IF f.val = None \/ second.err \in LookupErrors
         THEN Returns(JList(fans_data), f.io, l)
    ELSE IF second.err # "" THEN Raises(second.err, f.io, l)
    ELSE IF second.val.t # "dict" THEN Raises("AttributeError", f.io, l)
    ELSE Returns(JList([i \in 1..expected_fans |->
                           Fan(Get(second.val, Numbered(K_fan, fan_offset + i - 1),
                                   JInt(0)).val)]), f.io, l)

\* AntminerOld._is_sleep: the body is commented out but for `return True'
Old_is_sleep(web_get_conf, l, ans) == Returns(JBool(TRUE), <<>>, l)

(***************************************************************************)
(* The miner (environment): what the commands of the tables answer.        *)
(***************************************************************************)
Commands ==
    {"web_get_system_info", "web_get_network_info", "rpc_stats",
     "rpc_stats_new_api", "web_summary", "web_get_blink_status",
     "web_get_conf", "rpc_pools"}

Mac == JStr(<<"a", "a", ":", "b", "b">>)
Host == JStr(<<"m", "1">>)
D1(k, x) == JDict(<<Item(k, x)>>)

\* the payload of a command that carries every key its readers look for
FullPayload(c) ==
    CASE c = "web_get_system_info" ->
            JDict(<<Item(K_hostname, Host), Item(K_macaddr, Mac)>>)
      [] c = "web_get_network_info" -> D1(K_macaddr, Mac)
      [] c = "rpc_stats" ->
            D1(K_STATS, JList(<<JDict(<<>>),
                JDict(<<Item(K_total_rateideal, JInt(100)),
                        Item(K_rate_unit, JStr(S_TH)),
                        Item(K_Elapsed, JInt(5))>>)>>))
      [] c = "rpc_stats_new_api" ->
            D1(K_STATS, JList(<<D1(K_chain, JList(<<
                JDict(<<Item(K_index, JInt(0)), Item(K_rate_real, JInt(1)),
                        Item(K_asic_num, JInt(2)),
                        Item(K_temp_pcb, JList(<<JInt(45), JInt(0), JInt(47)>>))>>),
                D1(K_index, JInt(1))>>))>>))
      [] c = "web_summary" ->
            D1(K_SUMMARY, JList(<<D1(K_status, JList(<<
                D1(K_status, JStr(S_s)),
                JDict(<<Item(K_status, JStr(<<"e">>)),
                        Item(K_msg, JStr(<<"x">>))>>)>>))>>))
      [] c = "web_get_blink_status" -> D1(K_blink, JBool(TRUE))
      [] c = "web_get_conf" -> D1(K_bitmain_work_mode, JStr(<<"1">>))
      [] c = "rpc_pools" ->
            D1(K_POOLS, JList(<<JDict(<<Item(K_URL, JStr(<<"u">>)),
                                        Item(K_Status, JStr(S_Alive)),
                                        Item(K_POOL, JInt(0))>>)>>))

\* other payloads of a command: other values, keys missing, a text where a
\* number is expected
OtherPayloads(c) ==
    CASE c = "rpc_stats" ->
            {D1(K_STATS, JList(<<JDict(<<>>)>>)),
             D1(K_STATS, JList(<<JDict(<<>>),
                JDict(<<Item(K_total_rateideal, JStr(<<"x">>)),
                        Item(K_Elapsed, JStr(<<"x">>))>>)>>))}
      [] c = "web_get_blink_status" -> {D1(K_blink, JBool(FALSE)), JDict(<<>>)}
      [] c = "web_get_conf" ->
            {D1(K_bitmain_work_mode, JStr(<<"0">>)), JDict(<<>>)}
      [] OTHER -> {JDict(<<>>)}

PayloadsOf(c) == {FullPayload(c)} \cup OtherPayloads(c)

\* a command fails with a protocol error or with a connection error
Failures == {"APIError", "OSError"}

OutcomesOf(c) == {Ok(p) : p \in PayloadsOf(c)} \cup {Failed(e) : e \in Failures}

\* what the miner answers to web.blink
BlinkOutcomes ==
    {Ok(D1(K_code, JStr(S_B000))), Ok(D1(K_code, JStr(S_B100))), Ok(JDict(<<>>))}
        \cup {Failed(e) : e \in Failures}

(***************************************************************************)
(* The aggregation engine: harvest(fieldNames) -> Snapshot.                *)
(***************************************************************************)
NotIssued == Failed("not issued")
Outstanding == Failed("outstanding")
Unknown == [t |-> "unknown", v |-> <<>>]

Range(s) == {s[i] : i \in 1..Len(s)}

\* step 1: the distinct commands of the requested fields
Resolve(fields) ==
    UNION {Range(ANTMINER_MODERN_DATA_LOC[f].kwargs) : f \in fields}

\* step 3: a cached entry as the extraction function receives it
Gathered(c) == IF cache[c].ok THEN cache[c].val ELSE None

\* the extraction function of a field called on its dependencies
Extraction(f, l, ans) ==
    CASE f = "mac" -> _get_mac(Gathered("web_get_system_info"), l, ans)
      [] f = "hostname" -> _get_hostname(Gathered("web_get_system_info"), l, ans)
      [] f = "errors" -> _get_errors(Gathered("web_summary"), l, ans)
      [] f = "hashboards" -> _get_hashboards(l, ans)
      [] f = "fault_light" ->
            _get_fault_light(Gathered("web_get_blink_status"), l, ans)
      [] f = "expected_hashrate" ->
            _get_expected_hashrate(Gathered("rpc_stats"), l, ans)
      [] f = "is_mining" -> _is_mining(Gathered("web_get_conf"), l, ans)
      [] f = "is_sleep" -> _is_sleep(None, l, ans)
      [] f = "uptime" -> _get_uptime(Gathered("rpc_stats"), l, ans)
      [] f = "pools" -> _get_pools(Gathered("rpc_pools"), l, ans)

\* the commands an extraction function executes itself when it has to
Fetches(f) ==
    CASE f \in {"mac"} -> {"web_get_system_info", "web_get_network_info"}
      [] f = "hostname" -> {"web_get_system_info"}
      [] f = "errors" -> {"web_summary"}
      [] f = "hashboards" -> {"rpc_stats_new_api"}
      [] f = "fault_light" -> {"web_get_blink_status"}
      [] f \in {"expected_hashrate", "uptime"} -> {"rpc_stats"}
      [] f \in {"is_mining", "is_sleep"} -> {"web_get_conf"}
      [] f = "pools" -> {"rpc_pools"}

\* what the miner answers to the commands an extraction function executes
AnswersTo(f) ==
    LET first == CHOOSE c \in Fetches(f) : TRUE
        rest == Fetches(f) \ {first} IN
    IF rest = {}
    THEN {[c \in Commands |-> IF c = first THEN o ELSE NotIssued] :
             o \in OutcomesOf(first)}
    ELSE LET second == CHOOSE c \in rest : TRUE IN
         {[c \in Commands |-> IF c = first THEN o1
                              ELSE IF c = second THEN o2 ELSE NotIssued] :
             o1 \in OutcomesOf(first), o2 \in OutcomesOf(second)}

Count(io, c) == Cardinality({i \in 1..Len(io) : io[i] = c})

\* the failure marker of a command abandoned when the timeout expired
Abandoned == Failed("abandoned")

\* the answers given to the commands an extraction function executed
Told(io, ans) ==
    [c \in Commands |-> IF Count(io, c) > 0 THEN ans[c] ELSE NotIssued]

\* a fixed transport repeats the answer it gave to the command before
Repeats(c, o) == fixed => (mock[c] = NotIssued \/ mock[c] = o)

NoPrevious == [some |-> FALSE, snap |-> <<>>]

\* an engine that lets everything but a protocol error escape
Caught_ProtocolErrorsOnly(exc) == exc = "APIError"

\* step 3: extraction errors are caught per field
Caught(exc) == TRUE

\* step 3: the slot of a field whose extraction function has run
Slot(r) == IF r.exc = "" THEN r.ret ELSE Unknown

\* an assembler that leaves out the fields it could not resolve
Assemble_DropsUnknown(snap, f, slot) ==
    IF slot = Unknown THEN snap
    ELSE [g \in DOMAIN snap \cup {f} |-> IF g = f THEN slot ELSE snap[g]]

\* step 4: every requested field receives exactly one slot
Assemble(snap, f, slot) ==
    [g \in DOMAIN snap \cup {f} |-> IF g = f THEN slot ELSE snap[g]]

HInit ==
    /\ hpc = "idle"
    /\ harvestNo = 0
    /\ requested = {}
    /\ pending = {}
    /\ cache = [c \in Commands |-> NotIssued]
    /\ issued = [c \in Commands |-> 0]
    /\ extractIO = [c \in Commands |-> 0]
    /\ snapshot = <<>>
    /\ light = None
    /\ extracted = <<>>
    /\ mock = [c \in Commands |-> NotIssued]
    /\ previous = NoPrevious

\* steps 1 and 2: resolve the distinct commands and issue each of them once
HarvestStart ==
    /\ UNCHANGED <<tvars, ovars>>
    /\ hpc = "idle"
    /\ harvestNo < MaxHarvests
    /\ \E fields \in SUBSET ModernFields :
          /\ fields # {}
          /\ Cardinality(fields) <= MaxFields
          /\ (fixed /\ harvestNo > 0) => fields = requested
          /\ requested' = fields
          /\ pending' = fields
          /\ cache' = [c \in Commands |->
                          IF c \in Resolve(fields) THEN Outstanding ELSE NotIssued]
          /\ issued' = [c \in Commands |-> IF c \in Resolve(fields) THEN 1 ELSE 0]
          /\ hpc' = IF Resolve(fields) = {} THEN "extract" ELSE "gather"
    /\ harvestNo' = harvestNo + 1
    /\ extractIO' = [c \in Commands |-> 0]
    /\ snapshot' = <<>>
    /\ extracted' = <<>>
    /\ UNCHANGED <<light, fixed, mock, previous>>

\* step 2: a command settles; its outcome is recorded in the cache
Settle ==
    /\ UNCHANGED <<tvars, ovars>>
    /\ hpc = "gather"
    /\ \E c \in Commands :
          /\ cache[c] = Outstanding
          /\ \E o \in OutcomesOf(c) :
                /\ Repeats(c, o)
                /\ cache' = [cache EXCEPT ![c] = o]
                /\ mock' = IF fixed THEN [mock EXCEPT ![c] = o] ELSE mock
    /\ hpc' = IF \E c \in Commands : cache'[c] = Outstanding
              THEN "gather" ELSE "extract"
    /\ UNCHANGED <<harvestNo, requested, pending, issued, extractIO, snapshot,
                   light, extracted, fixed, previous>>

\* the caller's timeout expires while commands are unsettled: they are
\* abandoned and recorded as failed
Timeout ==
    /\ UNCHANGED <<tvars, ovars>>
    /\ hpc = "gather"
    /\ cache' = [c \in Commands |->
                    IF cache[c] = Outstanding THEN Abandoned ELSE cache[c]]
    /\ hpc' = "extract"
    /\ UNCHANGED <<harvestNo, requested, pending, issued, extractIO, snapshot,
                   light, extracted, fixed, mock, previous>>

\* step 3: the extraction function of a requested field runs; a failure
\* resolves the field to unknown
Extract ==
    /\ UNCHANGED <<tvars, ovars>>
    /\ hpc = "extract"
    /\ \E f \in pending : \E ans \in AnswersTo(f) :
          LET r == Extraction(f, light, ans)
              told == Told(r.io, ans) IN
          /\ \A c \in Range(r.io) : Repeats(c, ans[c])
          /\ mock' = IF fixed
                     THEN [c \in Commands |->
                              IF c \in Range(r.io) THEN ans[c] ELSE mock[c]]
                     ELSE mock
          /\ pending' = pending \ {f}
          /\ snapshot' = Assemble(snapshot, f, Slot(r))
          /\ extracted' = [g \in DOMAIN extracted \cup {f} |->
                              IF g # f THEN extracted[g]
                              ELSE [exc |-> r.exc, io |-> r.io, told |-> told,
                                    light |-> light]]
          /\ issued' = [c \in Commands |-> issued[c] + Count(r.io, c)]
          /\ extractIO' = [c \in Commands |-> extractIO[c] + Count(r.io, c)]
          /\ light' = r.light
          /\ hpc' = IF r.exc # "" /\ ~Caught(r.exc) THEN "raised"
                    ELSE IF pending' = {} THEN "done" ELSE "extract"
    /\ UNCHANGED <<harvestNo, requested, cache, fixed, previous>>

\* step 4: the Snapshot is returned; the cache and the Snapshot of the
\* harvest are discarded
HarvestFinish ==
    /\ UNCHANGED <<tvars, ovars>>
    /\ hpc = "done"
    /\ hpc' = "idle"
    /\ cache' = [c \in Commands |-> NotIssued]
    /\ issued' = [c \in Commands |-> 0]
    /\ extractIO' = [c \in Commands |-> 0]
    /\ snapshot' = <<>>
    /\ extracted' = <<>>
    /\ requested' = IF fixed THEN requested ELSE {}
    /\ previous' = IF fixed THEN [some |-> TRUE, snap |-> snapshot] ELSE previous
    /\ UNCHANGED <<harvestNo, pending, light, fixed, mock>>

\* fault_light_on() called on the idle handle
FaultLightOn ==
    /\ UNCHANGED <<tvars, ovars>>
    /\ hpc = "idle"
    /\ \E o \in BlinkOutcomes : light' = fault_light_on(light, o).light
    /\ previous' = NoPrevious
    /\ UNCHANGED <<hpc, harvestNo, requested, pending, cache, issued, extractIO,
                   snapshot, extracted, fixed, mock>>

\* fault_light_off() called on the idle handle
FaultLightOff ==
    /\ UNCHANGED <<tvars, ovars>>
    /\ hpc = "idle"
    /\ \E o \in BlinkOutcomes : light' = fault_light_off(light, o).light
    /\ previous' = NoPrevious
    /\ UNCHANGED <<hpc, harvestNo, requested, pending, cache, issued, extractIO,
                   snapshot, extracted, fixed, mock>>

HarvestNext ==
    \/ HarvestStart
    \/ Settle
    \/ Timeout
    \/ Extract
    \/ HarvestFinish
    \/ FaultLightOn
    \/ FaultLightOff

\* the steps of harvests in which every command is answered
RepeatNext ==
    \/ HarvestStart
    \/ Settle
    \/ Extract
    \/ HarvestFinish
    \/ FaultLightOn
    \/ FaultLightOff

(***************************************************************************)
(* stop_mining and resume_mining called on an AntminerModern handle, as    *)
(* coroutines that interleave at their awaits.                             *)
(***************************************************************************)
K_pools == <<"p", "o", "o", "l", "s">>
S_0 == <<"0">>
S_1 == <<"1">>

\* MinerConfig: the pools and the mining mode ("normal" or "sleep")
MinerConfig(pools, mining_mode) ==
    [t |-> "MinerConfig", v |-> [pools |-> pools, mining_mode |-> mining_mode]]

\* MinerConfig.from_am_modern(data)
from_am_modern(conf) ==
    LET m == Get(conf, K_bitmain_work_mode, None).val IN
    MinerConfig(Get(conf, K_pools, JList(<<>>)).val,
                IF IsDigit(m) /\ WorkModeIsSleep(m) THEN "sleep" ELSE "normal")

\* config.as_am_modern()
as_am_modern(cfg) ==
    JDict(<<Item(K_bitmain_work_mode,
                 JStr(IF cfg.v.mining_mode = "sleep" THEN S_1 ELSE S_0)),
            Item(K_pools, cfg.v.pools)>>)

\* AntminerModern.get_config: conf is what web.get_miner_conf() returned,
\* cfg is self.config; the result is self.config after the call
get_config(cfg, conf) == IF Truthy(conf) THEN from_am_modern(conf) ELSE cfg

\* MiningModeConfig.sleep() for stop_mining, .normal() for resume_mining
ModeOf(op) == IF op = "stop_mining" THEN "sleep" ELSE "normal"

ControlOps == {"stop_mining", "resume_mining"}
Idle == [pc |-> "idle", exc |-> "", fetched |-> None, sending |-> None]

\* the pool lists the device can be configured with
DevicePools == {JList(<<D1(K_URL, JStr(<<"a">>))>>), JList(<<D1(K_URL, JStr(<<"b">>))>>)}

\* nothing is cached on the handle; the device runs its first pool list
CInit ==
    /\ config = None
    /\ device = as_am_modern(MinerConfig(JList(<<D1(K_URL, JStr(<<"a">>))>>),
                                         "normal"))
    /\ task = [op \in ControlOps |-> Idle]
    /\ lastSent = None

\* no method has been called directly on the handle
NoCall == [fn |-> "none"]

OInit == call = NoCall /\ CInit

Init == TInit /\ HInit /\ OInit /\ fixed = FALSE

Spec == Init /\ [][Next]_vars

HarvestSpec == Init /\ [][HarvestNext]_vars

\* harvests against a transport that answers each command the same way
\* every time
RepeatInit == TInit /\ HInit /\ OInit /\ fixed = TRUE

RepeatSpec == RepeatInit /\ [][RepeatNext]_vars

(***************************************************************************)
(* Methods called directly on an AntminerOld handle.                       *)
(***************************************************************************)
\* the stats payloads of the old firmware: the readings chain_acn1, ...
\* (chip counts) and fan1 .. fan8 (fan speeds) with the telemetry of the
\* first board, either kind of key possibly missing, and payloads without
\* a second STATS entry
OldStatsPayloads ==
    LET items(prefix, xs) ==
            [i \in 1..Len(xs) |-> Item(Numbered(prefix, i), JInt(xs[i]))]
        counts == UNION {[1..n -> {0, 88}] : n \in 0..expected_hashboards}
                      \cup {<<0, 0, 0, 0, 0, 88, 88, 0>>}
        speeds == {<<>>,
                   <<5010, 5160, 5070, 5040, 0, 0, 0, 0>>,
                   <<0, 0, 5010, 5160, 5070, 5040, 0, 0>>,
                   <<0, 0, 0, 0, 5010, 5160, 5070, 5040>>}
        stats(acn, fans) ==
            D1(K_STATS, JList(<<JDict(<<>>),
                JDict(items(K_chain_acn, acn) \o items(K_fan, fans)
                      \o <<Item(Numbered(K_temp, 1), JInt(60)),
                           Item(Numbered(K_temp2_, 1), JInt(50)),
                           Item(Numbered(K_chain_rate, 1),
                                JStr(<<"1", "0", "0">>))>>)>>)) IN
    {stats(acn, fans) : acn \in counts, fans \in speeds}
        \cup {JDict(<<>>), D1(K_STATS, JList(<<>>)),
              D1(K_STATS, JList(<<JDict(<<>>)>>))}

\* the miner answers command c with o
Only(c, o) == [d \in Commands |-> IF d = c THEN o ELSE NotIssued]

\* the ways a method with one dependency is called: with the payload, or
\* with None while the miner answers the command the method then executes
CallsWith(payloads) ==
    {<<p, NotIssued>> : p \in payloads}
        \cup {<<None, Ok(p)>> : p \in payloads}
        \cup {<<None, Failed(e)>> : e \in Failures}

\* the record of a call: the argument, the answer of the miner, the outcome
Called(fn, in, r) ==
    [fn |-> fn, arg |-> in[1], answer |-> in[2], ret |-> r.ret, exc |-> r.exc,
     io |-> r.io, before |-> light, after |-> r.light]

\* await miner._get_hashboards(rpc_stats)
OldGetHashboards ==
    /\ \E in \in CallsWith(OldStatsPayloads) :
          call' = Called("_get_hashboards", in,
                         Old_get_hashboards(in[1], light, Only("rpc_stats", in[2])))
    /\ UNCHANGED <<tvars, hvars, cvars>>

\* await miner._get_fans(rpc_stats)
OldGetFans ==
    /\ \E in \in CallsWith(OldStatsPayloads) :
          call' = Called("_get_fans", in,
                         Old_get_fans(in[1], light, Only("rpc_stats", in[2])))
    /\ UNCHANGED <<tvars, hvars, cvars>>

\* await miner._is_sleep(web_get_conf)
OldIsSleep ==
    /\ \E in \in CallsWith(PayloadsOf("web_get_conf")) :
          call' = Called("_is_sleep", in,
                         Old_is_sleep(in[1], light, Only("web_get_conf", in[2])))
    /\ UNCHANGED <<tvars, hvars, cvars>>

OldNext ==
    \/ OldGetHashboards
    \/ OldGetFans
    \/ OldIsSleep

OldSpec == Init /\ [][OldNext]_vars

(***************************************************************************)
(* Methods called directly on an AntminerModern handle.                    *)
(***************************************************************************)
\* sensor-reading sequences: 0 stands for an absent sensor
Readings == UNION {[1..n -> {0, 45, 47}] : n \in 0..MaxReadings}

\* stats(new_api=True) payloads with one usable board whose temp_pcb or
\* temp_chip carries a reading sequence, the other key being left out
BoardPayloads ==
    LET board(k, r) ==
            JDict(<<Item(K_index, JInt(0)), Item(K_rate_real, JInt(1)),
                    Item(K_asic_num, JInt(2)),
                    Item(k, JList([i \in 1..Len(r) |-> JInt(r[i])]))>>) IN
    {D1(K_STATS, JList(<<D1(K_chain, JList(<<board(k, r)>>))>>)) :
        k \in {K_temp_pcb, K_temp_chip}, r \in Readings}

\* await miner._get_hashboards()
GetHashboards ==
    /\ \E in \in CallsWith(BoardPayloads \cup PayloadsOf("rpc_stats_new_api")) :
          /\ in[1] = None
          /\ call' = Called("_get_hashboards", in,
                            _get_hashboards(light, Only("rpc_stats_new_api", in[2])))
    /\ UNCHANGED <<tvars, hvars, cvars>>

\* await miner._get_fault_light(web_get_blink_status)
GetFaultLight ==
    /\ \E in \in CallsWith(PayloadsOf("web_get_blink_status")) :
          LET r == _get_fault_light(in[1], light,
                                    Only("web_get_blink_status", in[2])) IN
          /\ call' = Called("_get_fault_light", in, r)
          /\ light' = r.light
    /\ UNCHANGED <<tvars, cvars, hpc, harvestNo, requested, pending, cache, issued,
                   extractIO, snapshot, extracted, fixed, mock, previous>>

\* await miner.fault_light_on()
CallFaultLightOn ==
    /\ \E o \in BlinkOutcomes :
          LET r == fault_light_on(light, o) IN
          /\ call' = Called("fault_light_on", <<None, o>>, r)
          /\ light' = r.light
    /\ UNCHANGED <<tvars, cvars, hpc, harvestNo, requested, pending, cache, issued,
                   extractIO, snapshot, extracted, fixed, mock, previous>>

\* await miner.fault_light_off()
CallFaultLightOff ==
    /\ \E o \in BlinkOutcomes :
          LET r == fault_light_off(light, o) IN
          /\ call' = Called("fault_light_off", <<None, o>>, r)
          /\ light' = r.light
    /\ UNCHANGED <<tvars, cvars, hpc, harvestNo, requested, pending, cache, issued,
                   extractIO, snapshot, extracted, fixed, mock, previous>>

ModernNext ==
    \/ GetHashboards
    \/ GetFaultLight
    \/ CallFaultLightOn
    \/ CallFaultLightOff

ModernSpec == Init /\ [][ModernNext]_vars

(***************************************************************************)
(* The steps of stop_mining and resume_mining.                             *)
(***************************************************************************)
\* stop_mining / resume_mining up to the await of web.set_miner_conf:
\* get_config, the assignment of mining_mode, and send_config up to the
\* request; o is what web.get_miner_conf() answers
BeginControl(op) ==
    /\ task[op].pc = "idle"
    /\ \E o \in {Ok(device), Ok(JDict(<<>>))} \cup {Failed(e) : e \in Failures} :
          LET cfg == get_config(config, o.val) IN
          IF ~o.ok
          THEN /\ task' = [task EXCEPT ![op] = [Idle EXCEPT !.pc = "raised",
                                                            !.exc = o.exc]]
               /\ config' = config
          ELSE IF cfg.t = "None"
          THEN /\ task' = [task EXCEPT ![op] = [Idle EXCEPT !.pc = "raised",
                                                            !.exc = "AttributeError",
                                                            !.fetched = o.val]]
               /\ config' = cfg
          ELSE LET changed == MinerConfig(cfg.v.pools, ModeOf(op)) IN
               /\ task' = [task EXCEPT ![op] = [pc |-> "send", exc |-> "",
                                                fetched |-> o.val,
                                                sending |-> as_am_modern(changed)]]
               /\ config' = changed
    /\ UNCHANGED <<tvars, hvars, call, device, lastSent>>

\* await miner.stop_mining()
StopMining == BeginControl("stop_mining")

\* await miner.resume_mining()
ResumeMining == BeginControl("resume_mining")

\* web.set_miner_conf completes: the device has taken the configuration
\* and the call returns True, or the request fails and the call raises
ConfigSent ==
    /\ \E op \in ControlOps :
          /\ task[op].pc = "send"
          /\ \/ /\ device' = task[op].sending
                /\ lastSent' = task[op].sending
                /\ task' = [task EXCEPT ![op].pc = "returned"]
             \/ /\ \E e \in Failures :
                      task' = [task EXCEPT ![op].pc = "raised", ![op].exc = e]
                /\ UNCHANGED <<device, lastSent>>
    /\ UNCHANGED <<tvars, hvars, call, config>>

\* the caller has the result of the call
ControlOver ==
    /\ \E op \in ControlOps :
          /\ task[op].pc \in {"returned", "raised"}
          /\ task' = [task EXCEPT ![op] = Idle]
    /\ UNCHANGED <<tvars, hvars, call, config, device, lastSent>>

\* the operator of the miner changes its pools through the web interface
DeviceReconfigured ==
    /\ \E p \in DevicePools :
          /\ device' = DictSet(device, K_pools, p)
          /\ device' # device
    /\ UNCHANGED <<tvars, hvars, call, config, task, lastSent>>

ControlNext ==
    \/ StopMining
    \/ ResumeMining
    \/ ConfigSent
    \/ ControlOver
    \/ DeviceReconfigured

ControlSpec == Init /\ [][ControlNext]_vars

(***************************************************************************)
(* Properties of the transport.                                            *)
(***************************************************************************)
Done == {"returned", "raised"}
\* the device answered with a document followed by exactly one sentinel
Framed == devMode = "respond" /\ respDoc # NoDoc /\ respTail = <<Sentinel>>
\* the call decoded a document and checked its statuses
Checked == pc \in Done /\ conn.state = "closed"

IsSingle(doc) == doc.t = "dict" /\ HasKey(doc, K_STATUS)
IsMulti(doc) == doc.t = "dict" /\ ~HasKey(doc, K_STATUS)
\* the status entry of a single-command response, of a sub-command
TopEntry(doc) == Lookup(doc, K_STATUS).v[1]
SubEntry(sub) == Lookup(sub.v[1], K_STATUS).v[1]
CodeOf(e) == Lookup(e, K_STATUS).v
FailingSubs(doc) ==
    {i \in 1..Len(doc.v) :
        doc.v[i].k # K_id /\ CodeOf(SubEntry(doc.v[i].v)) \notin SuccessCodes}
AllOk(doc) ==
    IF IsSingle(doc) THEN CodeOf(TopEntry(doc)) \in SuccessCodes
    ELSE FailingSubs(doc) = {}

\* C1: a multicommand response with a failing sub-command makes the call
\* fail with an APIError whose message is the Msg of a failing sub-command.
C1_MultiFailureRaisesAPIError ==
    (pc \in Done /\ Framed /\ IsMulti(respDoc) /\ FailingSubs(respDoc) # {})
    => /\ outcome.kind = "raise"
       /\ outcome.exc = "APIError"
       /\ \E i \in FailingSubs(respDoc) :
             LET e == SubEntry(respDoc.v[i].v) IN
             HasKey(e, K_Msg) /\ outcome.value = Lookup(e, K_Msg)

\* C2: a single-command response whose status is neither S nor I makes the
\* call raise an APIError carrying the device's Msg, and an APIError with
\* the generic message when the status entry has no Msg.
C2_SingleFailureRaisesAPIError ==
    (pc \in Done /\ Framed /\ IsSingle(respDoc)
        /\ CodeOf(TopEntry(respDoc)) \notin SuccessCodes)
    => /\ outcome.kind = "raise"
       /\ outcome.exc = "APIError"
       /\ IF HasKey(TopEntry(respDoc), K_Msg)
          THEN outcome.value = Lookup(TopEntry(respDoc), K_Msg)
          ELSE APIErrorStr(outcome) = GenericMessage

\* C3: the call returns the parsed response, unchanged, exactly when every
\* status it must examine is S or I; the id key is not a sub-command.
C3_ReturnsIffAllStatusesOk ==
    Checked => /\ (outcome.kind = "return") <=> AllOk(data)
               /\ outcome.kind = "return" => outcome.value = data

C3_Witness ==
    /\ Checked /\ pc = "returned"
    /\ IsMulti(data) /\ HasKey(data, K_id) /\ Len(data.v) = 3

\* C4: of a document followed by exactly one sentinel byte, the call drops
\* exactly the sentinel, and what it parses is the document.
C4_SentinelStripped ==
    Framed =>
       /\ pc \in {"close", "check", "returned"} => data = respDoc
       /\ pc = "raised" =>
             outcome.exc \notin {"UnicodeDecodeError", "JSONDecodeError"}

C4_Witness ==
    /\ Framed /\ pc = "close"
    /\ IsSingle(respDoc) /\ HasKey(TopEntry(respDoc), K_Msg)
    /\ Lookup(TopEntry(respDoc), K_Msg).v = <<"U+00E9">>

Undecodable(b) ==
    \/ ~decode(b).ok
    \/ ~loads(DropLast(decode(b).s)).ok

\* C5: when the bytes received, less their last character, are no JSON
\* document, the call fails with an APIError and with nothing else.
C5_UndecodableRaisesAPIError ==
    (pc \in Done /\ devMode = "respond"
        /\ Undecodable(RespBytes(respDoc, respTail)))
    => (pc = "raised" /\ outcome.exc = "APIError")

\* C6: every call completes.  All of send_command but its read loop is
\* straight-line code, so a call completes iff its read loop ends: a call
\* waiting in reader.read() is always woken up, by bytes or by EOF.
C6_EveryCallCompletes == (pc = "read") => ENABLED (Read \/ ReadEOF)

CallsOf(log, c) == {i \in 1..Len(log) : log[i] = c}
WritesOf(c) == {i \in 1..Len(written) : written[i].call = c}
\* C7: a call opens one connection and writes one request on it; it never
\* connects a second time and never writes on the connection of another call.
C7_OneConnectionOneRequest ==
    /\ \A c \in 1..callNo :
          /\ Cardinality(CallsOf(opened, c)) =
                (IF c = callNo /\ pc = "connect" THEN 0 ELSE 1)
          /\ Cardinality(WritesOf(c)) <= 1
    /\ \A i \in 1..Len(written) :
          /\ written[i].conn \in 1..Len(opened)
          /\ opened[written[i].conn] = written[i].call
    /\ pc \in {"read", "decode", "close", "check", "returned"}
          => Cardinality(WritesOf(callNo)) = 1

C7_Witness ==
    /\ callNo = 2 /\ pc = "raised" /\ outcome.exc = "JSONDecodeError"
    /\ Len(opened) = 2 /\ Len(written) = 2

\* the names in their order with a + between two neighbours
PlusSeparated(names) ==
    Concat([i \in 1..(2 * Len(names) - 1) |->
              IF i % 2 = 1 THEN names[(i + 1) \div 2] ELSE <<"+">>])

\* C8: multicommand sends the names joined with + and no parameter key;
\* a request holds the parameter key iff parameters were given.
C8_RequestShape ==
    pc \in {"read", "decode", "close", "check", "returned"} =>
       LET t == decode(request)
           r == loads(t.s) IN
       /\ t.ok /\ r.ok /\ r.val.t = "dict"
       /\ HasKey(r.val, K_command)
       /\ Lookup(r.val, K_command) = JStr(command)
       /\ HasKey(r.val, K_parameter) <=> (parameters # None)
       /\ HasKey(r.val, K_parameter) => Lookup(r.val, K_parameter) = parameters
       /\ entry = "multicommand" =>
             /\ command = PlusSeparated(joined)
             /\ ~HasKey(r.val, K_parameter)

C8_Witness ==
    /\ pc = "read" /\ entry = "multicommand" /\ Len(joined) = 2
    /\ joined[1] # joined[2]

C8_WitnessParameters ==
    /\ pc = "read" /\ entry = "send_command" /\ parameters = JDict(<<>>)

(***************************************************************************)
(* Properties of the aggregation engine.                                   *)
(***************************************************************************)
Needed == Resolve(requested)
Extracting == hpc \in {"extract", "done"}

\* C9: within one harvest every distinct command of the requested fields is
\* executed exactly once, also when that execution failed, and no other
\* command of the table is executed more than once
C9_EachDescriptorOnce ==
    /\ \A c \in Commands : issued[c] <= 1
    /\ Extracting => \A c \in Needed : issued[c] = 1

\* C10: once the first extraction function has started no command is
\* outstanding and the extraction functions have executed no command
C10_NoIOAfterExtractionStarts ==
    Extracting => /\ \A c \in Commands : cache[c] # Outstanding
                  /\ \A c \in Commands : extractIO[c] = 0

\* the dependency list of a field
Deps(f) == Range(ANTMINER_MODERN_DATA_LOC[f].kwargs)

\* a slot without a value: the unknown sentinel, or the None an extraction
\* function returns when it has no data
IsUnknown(slot) == slot = Unknown \/ slot = None

AllSucceed == [c \in Commands |-> Ok(FullPayload(c))]

\* in the running harvest every execution of c failed, and every execution
\* of another command succeeded with its full payload
OnlyFails(c) ==
    /\ ~cache[c].ok
    /\ \A f \in requested : ~extracted[f].told[c].ok
    /\ \A d \in Commands \ {c} :
          /\ cache[d] \in {NotIssued, Ok(FullPayload(d))}
          /\ \A f \in requested :
                extracted[f].told[d] \in {NotIssued, Ok(FullPayload(d))}

\* C11: in a harvest where one command fails and every other succeeds, a
\* field that does not depend on the failed command has the value it has
\* when every command succeeds, and a field is unknown only if all its
\* dependencies failed
C11_PartialFailureIsolation ==
    hpc = "done" =>
        \A c \in Needed : OnlyFails(c) =>
            \A f \in requested :
                /\ c \notin Deps(f) =>
                      snapshot[f] = Slot(Extraction(f, extracted[f].light, AllSucceed))
                /\ IsUnknown(snapshot[f]) => \A d \in Deps(f) : ~cache[d].ok

\* C12: no error escapes harvest, whatever the commands answer: an
\* extraction function that raised, also on an error of a command it
\* executed itself, leaves its field unknown and the harvest goes on
C12_HarvestNeverRaises ==
    /\ hpc # "raised"
    /\ \A f \in DOMAIN extracted : extracted[f].exc # "" => snapshot[f] = Unknown

\* _get_mac raised the error of its own get_network_info and the harvest
\* returned
C12_Witness ==
    /\ hpc = "done"
    /\ "mac" \in requested
    /\ extracted["mac"].exc \in Failures
    /\ extracted["mac"].told["web_get_network_info"] = Failed(extracted["mac"].exc)

\* C14: the returned Snapshot has one slot for every requested field and no
\* slot for any other field; while extraction runs it has the slots of the
\* fields extracted so far
C14_OneSlotPerRequestedField ==
    /\ hpc = "done" => DOMAIN snapshot = requested
    /\ hpc = "extract" => DOMAIN snapshot = requested \ pending

\* a harvest of two fields returned with one of them unknown
C14_Witness ==
    /\ hpc = "done"
    /\ Cardinality(requested) = 2
    /\ \E f \in requested : snapshot[f] = Unknown
    /\ \E f \in requested : ~IsUnknown(snapshot[f])

\* C13: an extraction function never raises, whatever it is passed (absent,
\* keys missing, a text for a number) and whatever the transports answer
C13_ExtractionNeverRaises ==
    \A f \in DOMAIN extracted : extracted[f].exc = ""

\* every execution of every dependency of the field failed in this harvest
AllDepsFailed(f) ==
    \A d \in Deps(f) : ~cache[d].ok /\ ~extracted[f].told[d].ok

\* C15: a field with dependencies all of which failed is unknown, never a
\* concrete value such as an empty list, and a field with a dependency that
\* succeeded with its full payload is not unknown
C15_UnknownIffDependenciesFailed ==
    hpc = "done" =>
        \A f \in requested : Deps(f) # {} =>
            /\ AllDepsFailed(f) => IsUnknown(snapshot[f])
            /\ (\E d \in Deps(f) : cache[d] = Ok(FullPayload(d)))
                  => ~IsUnknown(snapshot[f])

\* the blink status the miner reported to the running harvest
BlinkReported ==
    LET status == cache["web_get_blink_status"] IN
    /\ status.ok
    /\ HasKey(status.val, K_blink)

\* C16: the fault_light of a harvest is the blink status the miner reported
\* during that harvest, whatever an earlier harvest or fault_light_on saw
C16_FaultLightIsCurrent ==
    (hpc = "done" /\ "fault_light" \in requested /\ BlinkReported)
        => snapshot["fault_light"] =
              Lookup(cache["web_get_blink_status"].val, K_blink)

\* C17: against a transport that answers every command the same way each
\* time, a harvest yields the Snapshot that the harvest of the same fields
\* just before it on the same handle yielded
C17_Idempotence ==
    (hpc = "done" /\ previous.some) => snapshot = previous.snap

\* the second of two harvests of the fault light, which the first harvest
\* found on and cached on the handle
C17_Witness ==
    /\ hpc = "done"
    /\ previous.some
    /\ harvestNo = 2
    /\ "fault_light" \in requested
    /\ snapshot["fault_light"] = JBool(TRUE)
    /\ extracted["fault_light"].light = JBool(TRUE)
    /\ mock["web_get_blink_status"] = Ok(D1(K_blink, JBool(TRUE)))

\* C18: when the timeout expired with commands unsettled, the harvest
\* returns a Snapshot in which every field that depends on an abandoned
\* command is unknown
C18_TimeoutLeavesDependentsUnknown ==
    hpc = "done" =>
        \A f \in requested : \A d \in Deps(f) :
            cache[d] = Abandoned => IsUnknown(snapshot[f])

\* C19: an extraction function reads the payload of no command that is not
\* in the dependency list of its field
C19_DependencyListCoversReads ==
    \A f \in DOMAIN extracted : Range(extracted[f].io) \subseteq Deps(f)

\* the chain list of the stats payload _get_hashboards was answered with
ChainSeen ==
    LET stats == extracted["hashboards"].told["rpc_stats_new_api"] IN
    IF stats.ok THEN Path(stats.val, <<JStr(K_STATS), JInt(0), JStr(K_chain)>>)
    ELSE Err("no payload")

Usable(board) ==
    \/ HasKey(board, K_rate_real) /\ Lookup(board, K_rate_real) # None
    \/ HasKey(board, K_asic_num) /\ Lookup(board, K_asic_num) # None

\* C20: every board of the chain that carries an index has exactly one
\* entry with its slot in the result of _get_hashboards, and the entry of a
\* board without hashrate and chip count is flagged missing
C20_HashboardsKeepPosition ==
    (hpc = "done" /\ "hashboards" \in requested /\ ChainSeen.err = "") =>
        LET chain == ChainSeen.val.v
            boards == snapshot["hashboards"].v IN
        \A i \in 1..Len(chain) : HasKey(chain[i], K_index) =>
            /\ Cardinality({j \in 1..Len(boards) :
                               boards[j].slot = Lookup(chain[i], K_index)}) = 1
            /\ \A j \in 1..Len(boards) :
                  boards[j].slot = Lookup(chain[i], K_index)
                      => (boards[j].missing <=> ~Usable(chain[i]))

(***************************************************************************)
(* The connection of a call of the transport.                              *)
(***************************************************************************)
\* C24: a call that ends after it connected, by returning or by raising,
\* has closed the connection it opened
C24_ConnectionClosedOnEveryPath ==
    (pc \in Done /\ conn.state # "none") => conn.state = "closed"

(***************************************************************************)
(* Properties of the methods of AntminerOld.                               *)
(***************************************************************************)
\* an entry is flagged missing iff its chip count is absent or not positive
MissingIffNoChips(hb) == hb.missing <=> (hb.chips.t = "None" \/ ~(hb.chips.v > 0))

\* C21: whenever AntminerOld._get_hashboards returns, it returns exactly
\* expected_hashboards entries, with the slots 0, 1, ... in order, and an
\* entry is flagged missing iff its chip count is absent or not positive
C21_OldHashboardsComplete ==
    (call.fn = "_get_hashboards" /\ call.exc = "") =>
        /\ Len(call.ret.v) = expected_hashboards
        /\ \A i \in 1..Len(call.ret.v) :
              /\ call.ret.v[i].slot = JInt(i - 1)
              /\ MissingIffNoChips(call.ret.v[i])

\* the payload a called method works on: its argument, or what the miner
\* answers to the command when the argument is None
PayloadOf(c) ==
    IF c.arg.t # "None" THEN c.arg
    ELSE IF c.answer.ok THEN c.answer.val ELSE None

\* the reading of key fan<i>, 0 when the key is missing
FanReading(stats, i) == Get(stats, Numbered(K_fan, i), JInt(0)).val

\* some fan reading of the group fan<n> .. fan<n+3> is not zero
FanGroupReads(stats, n) == \E k \in 0..3 : FanReading(stats, n + k) # JInt(0)

\* C23: AntminerOld._get_fans returns exactly expected_fans entries, and
\* entry i carries the reading of fan<offset+i>, offset being the first of
\* the candidate offsets 1 and 5 at which a non-zero reading is found
C23_FansFollowDetectedOffset ==
    (call.fn = "_get_fans" /\ call.exc = "") =>
        /\ Len(call.ret.v) = expected_fans
        /\ LET second == Path(PayloadOf(call), <<JStr(K_STATS), JInt(1)>>)
               offset == IF FanGroupReads(second.val, 1) THEN 1 ELSE 5 IN
           (second.err = "" /\ (FanGroupReads(second.val, 1)
                                   \/ FanGroupReads(second.val, 5))) =>
               \A i \in 1..expected_fans :
                   call.ret.v[i].speed = FanReading(second.val, offset + i - 1)

\* the configuration asks for sleep: bitmain-work-mode is 1
SleepConfigured(conf) ==
    LET m == Subscript(conf, JStr(K_bitmain_work_mode)) IN
    m.err = "" /\ IsDigit(m.val) /\ WorkModeIsSleep(m.val)

\* C25: AntminerOld._is_sleep returns True iff bitmain-work-mode of the
\* configuration is 1, and False when the configuration cannot be fetched
\* or lacks the key
C25_OldIsSleepFollowsWorkMode ==
    call.fn = "_is_sleep" =>
        /\ call.exc = ""
        /\ call.ret = JBool(SleepConfigured(PayloadOf(call)))

(***************************************************************************)
(* Properties of the methods of AntminerModern called on the handle.       *)
(***************************************************************************)
\* the first board of the chain the miner answered with
FirstBoard(c) ==
    Path(c.answer.val, <<JStr(K_STATS), JInt(0), JStr(K_chain), JInt(0)>>)

\* the reading sequence of a board under key k, <<>> when the key is missing
ReadingOf(board, k) == IF HasKey(board, k) THEN Lookup(board, k).v ELSE <<>>

\* the sum of the first n readings: a zero adds nothing
RECURSIVE Total(_, _)
Total(r, n) == IF n = 0 THEN 0 ELSE r[n].v + Total(r, n - 1)

Present(r) == {i \in 1..Len(r) : r[i].v # 0}

\* temp is the average of the non-zero readings of r, unset when r has none
AveragesPresent(temp, r) ==
    IF Present(r) = {} THEN temp.t = "None"
    ELSE /\ temp.t = "float"
         /\ temp.v[1] * Cardinality(Present(r)) = Total(r, Len(r)) * temp.v[2]

\* C22: a board temperature is the average of the non-zero readings of its
\* sequence (temp_pcb, temp_chip), so [45, 0, 47] gives 46; for an empty or
\* all-zero sequence it stays unset and the call raises nothing
C22_ZeroAsAbsent ==
    (/\ call.fn = "_get_hashboards"
     /\ call.answer.ok
     /\ FirstBoard(call).err = ""
     /\ HasKey(FirstBoard(call).val, K_rate_real)) =>
        LET pcb == ReadingOf(FirstBoard(call).val, K_temp_pcb)
            chip == ReadingOf(FirstBoard(call).val, K_temp_chip) IN
        /\ call.exc = ""
        /\ Len(call.ret.v) >= 1
        /\ AveragesPresent(call.ret.v[1].temp, pcb)
        /\ AveragesPresent(call.ret.v[1].chip_temp, chip)
        /\ (pcb = <<JInt(45), JInt(0), JInt(47)>>) =>
               call.ret.v[1].temp.v[1] = 46 * call.ret.v[1].temp.v[2]

\* a board with the readings [45, 0, 47] was reported with temperature 92/2
C22_Witness ==
    /\ call.fn = "_get_hashboards"
    /\ call.exc = ""
    /\ call.answer.ok
    /\ FirstBoard(call).err = ""
    /\ ReadingOf(FirstBoard(call).val, K_temp_pcb) = <<JInt(45), JInt(0), JInt(47)>>
    /\ call.ret.v[1].temp.t = "float"
    /\ call.ret.v[1].temp.v = <<92, 2>>

LightCalls == {"fault_light_on", "fault_light_off", "_get_fault_light"}

\* the code of the response to web.blink, None when there is none
BlinkCode(c) ==
    IF c.answer.ok THEN Get(c.answer.val, K_code, None).val ELSE None

\* the blink status the call read, when it read one
StatusRead(c) == Subscript(PayloadOf(c), JStr(K_blink))

\* the device confirmed that the light is on
ConfirmedOn(c) ==
    \/ c.fn = "fault_light_on" /\ BlinkCode(c) = JStr(S_B000)
    \/ c.fn = "_get_fault_light" /\ StatusRead(c).err = ""
          /\ StatusRead(c).val = JBool(TRUE)

\* the device confirmed that the light is off
ConfirmedOff(c) ==
    \/ c.fn = "fault_light_off" /\ BlinkCode(c) = JStr(S_B100)
    \/ c.fn = "_get_fault_light" /\ StatusRead(c).err = ""
          /\ StatusRead(c).val = JBool(FALSE)

\* C26: over any sequence of fault_light_on, fault_light_off and
\* _get_fault_light calls the cached flag changes only on a confirmation of
\* the device (to True on B000 or a status reporting blink, to False on
\* B100 or a status reporting no blink), an empty or unconfirmed response
\* leaves it unchanged, and a call returns the flag as it is after the call
C26_LightChangesOnConfirmation ==
    call.fn \in LightCalls =>
        /\ call.after # call.before =>
              \/ call.after = JBool(TRUE) /\ ConfirmedOn(call)
              \/ call.after = JBool(FALSE) /\ ConfirmedOff(call)
        /\ (~ConfirmedOn(call) /\ ~ConfirmedOff(call)) => call.after = call.before
        /\ call.exc = "" => call.ret = call.after

\* the light was on and fault_light_off, confirmed with B100, cleared it
C26_Witness ==
    /\ call.fn = "fault_light_off"
    /\ call.before = JBool(TRUE)
    /\ BlinkCode(call) = JStr(S_B100)
    /\ call.after = JBool(FALSE)
    /\ call.ret = JBool(FALSE)

(***************************************************************************)
(* Properties of stop_mining and resume_mining.                            *)
(***************************************************************************)
\* the configuration conf with only the mining mode changed to that of op
WithMode(conf, op) ==
    as_am_modern(MinerConfig(from_am_modern(conf).v.pools, ModeOf(op)))

\* a complete configuration: the pools and a work mode
Complete(conf) ==
    /\ HasKey(conf, K_pools) /\ Lookup(conf, K_pools) \in DevicePools
    /\ HasKey(conf, K_bitmain_work_mode)
    /\ Lookup(conf, K_bitmain_work_mode).v \in {S_0, S_1}

\* the call sends what the device returned in its own get_config, with
\* only the mining mode changed
SendsFetched(op) ==
    task[op].pc \in {"send", "returned"} =>
        /\ Truthy(task[op].fetched)
        /\ task[op].sending = WithMode(task[op].fetched, op)

\* a call has returned True only after the device took its configuration
ReturnsAfterSend(op) ==
    task[op].pc = "returned" => lastSent.t # "None"

\* C27: stop_mining and resume_mining send the configuration the device
\* returned in the get_config of the same call with only mining_mode
\* changed (never one cached by an earlier call), return True only after
\* the send completed, and the configuration last sent is a complete one
C27_ReadModifyWrite ==
    /\ \A op \in ControlOps : SendsFetched(op) /\ ReturnsAfterSend(op)
    /\ lastSent.t # "None" => Complete(lastSent)

====
